---- MODULE Spec2Model ----
(***************************************************************************)
(* PipeRouter of control_systems.py: the obstacle grid, the pipe-occupancy *)
(* grid and the A* search of find_path, with the binary heap of heapq that *)
(* orders the frontier.                                                    *)
(*                                                                         *)
(* Quantities that can have a fractional part of .5 in the program (world  *)
(* coordinates, because of mid_x = (start_x + end_x) / 2, and path costs,  *)
(* because of the 1.5 and 0.5 weights) are stored doubled, as integers:    *)
(* the world coordinate w is the integer Half * w, the cost c is Half * c. *)
(* Grid cells and the heuristic h are plain integers.                      *)
(***************************************************************************)
EXTENDS Integers, Sequences, FiniteSets, TLC

\* ---------------------------------------------------------------- bounds
GridCols == 4           \* cells per row:    width  // grid_size
GridRows == 2           \* cells per column: height // grid_size
MaxObstacleCells == 2   \* add_component_obstacle is not called past this many cells
MaxPipeCells == 2       \* add_pipe_path is not called past this many cells
MaxCalls == 2           \* consecutive find_path calls with identical arguments
MaxRegisterCalls == 2   \* registration calls on one router in RegisterSpec
MaxPathPoints == 3      \* points of a path given to add_pipe_path in RegisterSpec
MaxTagLetters == 3      \* leading letters of a tag given to _parse_instrument_function
MaxComponents == 3      \* components of a drawing given to the analyzer
MaxPipes == 2           \* pipes of a drawing given to the analyzer
MaxValidateCalls == 2   \* validate_all calls on one PnIDValidator
MaxLabelledPipes == 3   \* labelled pipes of a drawing given to validate_line_sizing
MaxPlaced == 2          \* components the app places before it routes pipes

\* ------------------------------------------------------ program constants
Half == 2               \* the divisor of mid_x; also the unit of doubled values
grid_size == 10         \* PipeRouter(grid_size=10)
width == GridCols * grid_size
height == GridRows * grid_size

StepCost == 2           \* cost = 1.0, doubled
PipeCost == 3           \* cost = 1.5, doubled
TurnPenalty == 1        \* tentative_g += 0.5, doubled
AppPadding == 20        \* add_component_obstacle(..., padding=20) in the app

VARIABLES
    obstacles,          \* self.obstacles: set of grid cells <<gx, gy>>
    pipes_grid,         \* self.pipes_grid: set of grid cells
    pc,                 \* "idle" | "search" (inside the while loop) | "returned"
    start, end,         \* arguments of the latest find_path call (doubled world points)
    prefer_straight,    \* argument of the latest find_path call
    open_set,           \* the heap: a sequence of GridNode records
    closed_set,         \* set of grid cells
    raw_path,           \* the local path after path.reverse(), before smoothing
    path,               \* the returned list of points
    via,                \* which return statement produced path: "search" | "fallback" | "none"
    previous,           \* results of the preceding calls with these same arguments
    last_call,          \* the latest registration call and its arguments (RegisterSpec)
    components,         \* the components dict, in insertion order: a sequence of records
    pipes,              \* the pipes list: a sequence of records
    control_loops,      \* ControlSystemAnalyzer.control_loops of the analyzer the app holds
    interlocks,         \* ControlSystemAnalyzer.interlocks of that analyzer
    errors,             \* PnIDValidator.errors
    warnings,           \* PnIDValidator.warnings
    apc,                \* where the app is: "drawn" | "analyzed" | "connected" | "validator" |
                        \* "validated" | "raised" (the latest call raised AttributeError)
    find_id,            \* argument of the latest _find_connected_instruments call
    find_connected,     \* the list that call returned
    results,            \* the dicts the validate_all calls of the validator returned
    parse_tag,          \* argument of the _parse_instrument_function call (ParseSpec)
    parse_result,       \* what that call returned
    parse_pc            \* "idle" | "returned"

vars == <<obstacles, pipes_grid, pc, start, end, prefer_straight, open_set,
          closed_set, raw_path, path, via, previous, last_call,
          components, pipes, control_loops, interlocks, errors, warnings, apc,
          find_id, find_connected, results, parse_tag, parse_result, parse_pc>>

\* the variables of the router, of the drawing under analysis, of a parse call
routing == <<obstacles, pipes_grid, pc, start, end, prefer_straight, open_set,
             closed_set, raw_path, path, via, previous, last_call>>
drawing == <<components, pipes, control_loops, interlocks, errors, warnings, apc,
             find_id, find_connected, results>>
parsing == <<parse_tag, parse_result, parse_pc>>

\* ------------------------------------------------------------- arithmetic
Abs(n) == IF n < 0 THEN -n ELSE n
Min(a, b) == IF a < b THEN a ELSE b
Max(a, b) == IF a > b THEN a ELSE b

\* int(a / b) for b > 0: Python's int() truncates towards zero
Trunc(a, b) == IF a >= 0 THEN a \div b ELSE -((-a) \div b)

\* int(c / self.grid_size) of a doubled world coordinate
ToGrid(c) == Trunc(c, Half * grid_size)

\* cell * self.grid_size, as a doubled world coordinate
ToWorld(k) == Half * (k * grid_size)

Cells == (0 .. GridCols - 1) \X (0 .. GridRows - 1)

\* ---------------------------------------------------------------- GridNode
\* parent is the chain of ancestor cells from the start node down to the parent
\* node (the parent links followed to None, reversed); <<>> is parent = None.
GridNode(x, y, g, h, parent) == [x |-> x, y |-> y, g |-> g, h |-> h, parent |-> parent]

\* self.f = g + h, doubled
F(n) == n.g + Half * n.h

\* a plausible slip: the comparison turned round
LtReversed(a, b) == F(b) < F(a)

\* GridNode.__lt__
Lt(a, b) == F(a) < F(b)

\* ------------------------------------------------------------------- heapq
\* Positions are 0-based as in heapq; heap[p + 1] is the item at position p.
\* A loop is a recursive operator; where its next round is written
\* CHOOSE out \in {Loop(h, ...) : h \in {e}} : TRUE, that is Loop(e, ...) with
\* e evaluated once.
RECURSIVE SiftDownLoop(_, _, _, _)
SiftDownLoop(heap, newitem, startpos, pos) ==
    IF pos > startpos
    THEN LET parentpos == (pos - 1) \div 2
             parent == heap[parentpos + 1]
         IN  IF Lt(newitem, parent)
             THEN CHOOSE out \in {SiftDownLoop(h, newitem, startpos, parentpos) :
                                     h \in {[heap EXCEPT ![pos + 1] = parent]}} : TRUE
             ELSE [heap EXCEPT ![pos + 1] = newitem]
    ELSE [heap EXCEPT ![pos + 1] = newitem]

siftdown(heap, startpos, pos) == SiftDownLoop(heap, heap[pos + 1], startpos, pos)

RECURSIVE SiftUpLoop(_, _, _, _)
SiftUpLoop(heap, newitem, startpos, pos) ==
    LET endpos == Len(heap)
        childpos == 2 * pos + 1
        rightpos == childpos + 1
        pick == IF rightpos < endpos /\ ~Lt(heap[childpos + 1], heap[rightpos + 1])
                THEN rightpos ELSE childpos
    IN  IF childpos < endpos
        THEN CHOOSE out \in {SiftUpLoop(h, newitem, startpos, pick) :
                                h \in {[heap EXCEPT ![pos + 1] = heap[pick + 1]]}} : TRUE
        ELSE siftdown([heap EXCEPT ![pos + 1] = newitem], startpos, pos)

siftup(heap, pos) == SiftUpLoop(heap, heap[pos + 1], pos, pos)

heappush(heap, item) == siftdown(Append(heap, item), 0, Len(heap))

\* a plausible slip: the last item of the heap is returned without leaving it
heappop_keeps_last(heap) ==
    LET lastelt == heap[Len(heap)]
        rest == SubSeq(heap, 1, Len(heap) - 1)
    IN  IF rest # <<>>
        THEN [item |-> rest[1], heap |-> siftup([rest EXCEPT ![1] = lastelt], 0)]
        ELSE [item |-> lastelt, heap |-> heap]

\* heappop: the popped item and the heap left behind
heappop(heap) ==
    LET lastelt == heap[Len(heap)]
        rest == SubSeq(heap, 1, Len(heap) - 1)
    IN  IF rest # <<>>
        THEN [item |-> rest[1], heap |-> siftup([rest EXCEPT ![1] = lastelt], 0)]
        ELSE [item |-> lastelt, heap |-> rest]

\* ------------------------------------------------------------ PipeRouter
\* The cells add_component_obstacle adds for a component at (x, y) of size
\* w * h with the given padding (all doubled world lengths).
ObstacleCells(x, y, w, h, padding) ==
    LET start_x == Max(0, ToGrid(x - padding))
        start_y == Max(0, ToGrid(y - padding))
        end_x == Min(width \div grid_size, ToGrid(x + w + padding))
        end_y == Min(height \div grid_size, ToGrid(y + h + padding))
    IN  (start_x .. end_x) \X (start_y .. end_y)

\* a plausible slip: only the two end cells of the segment
EndCellsOnly(x0, y0, x1, y1) == << <<x0, y0>>, <<x1, y1>> >>

RECURSIVE BresenhamLoop(_, _, _, _, _, _, _, _, _, _)
BresenhamLoop(cells, x0, y0, x1, y1, dx, dy, sx, sy, err) ==
    LET out == Append(cells, <<x0, y0>>)
        e2 == 2 * err
        stepx == e2 > -dy
        err1 == IF stepx THEN err - dy ELSE err
        nx == IF stepx THEN x0 + sx ELSE x0
        stepy == e2 < dx
        err2 == IF stepy THEN err1 + dx ELSE err1
        ny == IF stepy THEN y0 + sy ELSE y0
    IN  IF x0 = x1 /\ y0 = y1
        THEN out
        ELSE BresenhamLoop(out, nx, ny, x1, y1, dx, dy, sx, sy, err2)

bresenham_line(x0, y0, x1, y1) ==
    LET dx == Abs(x1 - x0)
        dy == Abs(y1 - y0)
        sx == IF x0 < x1 THEN 1 ELSE -1
        sy == IF y0 < y1 THEN 1 ELSE -1
    IN  BresenhamLoop(<<>>, x0, y0, x1, y1, dx, dy, sx, sy, dx - dy)

Range(s) == {s[i] : i \in 1 .. Len(s)}

\* The cells add_pipe_path adds for the list of points
PipeCells(points) ==
    UNION {Range(bresenham_line(ToGrid(points[i][1]), ToGrid(points[i][2]),
                                ToGrid(points[i + 1][1]), ToGrid(points[i + 1][2])))
           : i \in 1 .. Len(points) - 1}

heuristic(a, b) == Abs(a[1] - b[1]) + Abs(a[2] - b[2])

directions == << <<0, 1>>, <<1, 0>>, <<0, -1>>, <<-1, 0>> >>

\* a plausible slip: <= for < in the bounds check
InBoundsInclusive(c) ==
    /\ 0 <= c[1] /\ c[1] <= width \div grid_size
    /\ 0 <= c[2] /\ c[2] <= height \div grid_size

InBounds(c) ==
    /\ 0 <= c[1] /\ c[1] < width \div grid_size
    /\ 0 <= c[2] /\ c[2] < height \div grid_size

\* a plausible slip: pipe-occupied cells treated as obstacles
BlockedOrPiped(c) == c \in obstacles \cup pipes_grid

\* a plausible slip: the neighbour tested against the pipe cells, not the obstacles
BlockedByPipe(c) == c \in pipes_grid

Blocked(c) == c \in obstacles

\* _get_neighbors: the <<new_x, new_y, cost>> triples, in the order of directions
get_neighbors(node) ==
    LET cand == [i \in 1 .. Len(directions) |->
                    <<node.x + directions[i][1], node.y + directions[i][2]>>]
        triple(c) == <<c[1], c[2], IF c \in pipes_grid THEN PipeCost ELSE StepCost>>
        ok(c) == InBounds(c) /\ ~Blocked(c)
        all == [i \in 1 .. Len(cand) |-> triple(cand[i])]
    IN  SelectSeq(all, LAMBDA t : ok(<<t[1], t[2]>>))

are_collinear(p1, p2) == p1[1] = p2[1] \/ p1[2] = p2[2]

\* a plausible slip: each point tested against its predecessor instead of path[i]
RECURSIVE LookAheadPairwise(_, _, _)
LookAheadPairwise(p, i, j) ==
    IF j < Len(p) /\ are_collinear(p[j], p[j + 1])
    THEN LookAheadPairwise(p, i, j + 1)
    ELSE j

\* the inner while of _smooth_path: the first j (0-based) that is len(path) or
\* not collinear with path[i]
RECURSIVE LookAhead(_, _, _)
LookAhead(p, i, j) ==
    IF j < Len(p) /\ are_collinear(p[i + 1], p[j + 1])
    THEN LookAhead(p, i, j + 1)
    ELSE j

\* smoothed.append(path[j - 1]); i = j - 1
Furthest(p, i) == LookAhead(p, i, i + 1) - 1

RECURSIVE SmoothLoop(_, _, _)
SmoothLoop(p, smoothed, i) ==
    IF i < Len(p) - 1
    THEN LET k == Furthest(p, i)
         IN  SmoothLoop(p, Append(smoothed, p[k + 1]), k)
    ELSE smoothed

smooth_path(p) == IF Len(p) <= 2 THEN p ELSE SmoothLoop(p, <<p[1]>>, 0)

\* a plausible slip: "return direct line", as the comment at the return says
FallbackDirectLine(s, e) == << s, e >>

fallback_path(s, e) ==
    LET mid_x == (s[1] + e[1]) \div Half
    IN  << s, <<mid_x, s[2]>>, <<mid_x, e[2]>>, e >>

\* -------------------------------------------------------------- find_path
StartGrid == <<ToGrid(start[1]), ToGrid(start[2])>>
EndGrid == <<ToGrid(end[1]), ToGrid(end[2])>>

\* the cells from the start node to the node, following the parent links
Chain(node) == Append(node.parent, <<node.x, node.y>>)

\* the path local of the goal branch: reconstructed, reversed, in world coordinates
Reconstruct(node) ==
    [i \in 1 .. Len(Chain(node)) |-> <<ToWorld(Chain(node)[i][1]), ToWorld(Chain(node)[i][2])>>]

\* path[0] = start; path[-1] = end
ExactEnds(p, s, e) == [[p EXCEPT ![1] = s] EXCEPT ![Len(p)] = e]

\* the 0.5 added when the step current -> (nx, ny) leaves the direction of
\* the step current.parent -> current
Penalty(current, nx, ny) ==
    IF prefer_straight /\ current.parent # <<>>
    THEN LET par == current.parent[Len(current.parent)]
             d1 == <<current.x - par[1], current.y - par[2]>>
             d2 == <<nx - current.x, ny - current.y>>
         IN  IF d1 # d2 THEN TurnPenalty ELSE 0
    ELSE 0

\* the for loop over the neighbours of current: the heap after the pushes
RECURSIVE Explore(_, _, _, _)
Explore(heap, current, nbrs, closed) ==
    IF nbrs = <<>>
    THEN heap
    ELSE LET n == Head(nbrs)
             tentative_g == current.g + n[3] + Penalty(current, n[1], n[2])
             neighbor == GridNode(n[1], n[2], tentative_g,
                                  heuristic(<<n[1], n[2]>>, EndGrid), Chain(current))
             after == IF <<n[1], n[2]>> \in closed THEN heap ELSE heappush(heap, neighbor)
         IN  \* (h and rest range over singletons: the arguments are evaluated once)
             CHOOSE out \in {Explore(h, current, rest, closed) :
                                h \in {after}, rest \in {Tail(nbrs)}} : TRUE

\* a frontier without a fixed order among nodes of equal f: any node of least
\* f may be the one popped
PopAnyLeast(heap) ==
    {[item |-> heap[i],
      heap |-> SubSeq(heap, 1, i - 1) \o SubSeq(heap, i + 1, Len(heap))] :
        i \in {k \in 1 .. Len(heap) : \A j \in 1 .. Len(heap) : ~Lt(heap[j], heap[k])}}

\* what heapq.heappop(open_set) can give
PopChoices(heap) == {heappop(heap)}

\* ------------------------------------------------------------------ inputs
\* components: every cell, a component inside one cell or spanning two
CompXs == {Half * (grid_size * i + 2) : i \in 0 .. GridCols - 1}
CompYs == {Half * (grid_size * j + 2) : j \in 0 .. GridRows - 1}
CompSizes == {Half * 5, Half * 10}
Paddings == {0}

\* points of existing pipes: the centres of the cells of the first column
PipePoints == {<<Half * 5, Half * (grid_size * j + 5)>> : j \in 0 .. GridRows - 1}
PipePaths == {<<>>} \cup {<<p>> : p \in PipePoints} \cup {<<p, q>> : p \in PipePoints, q \in PipePoints}

\* ports: off the grid lines, so that start and end differ from their cell
\* corners and from each other, and start_x + end_x is odd
StartPoints == {<<Half * (grid_size * c[1] + 3), Half * (grid_size * c[2] + 3)>> : c \in Cells}
EndPoints == {<<Half * (grid_size * c[1] + 6), Half * (grid_size * c[2] + 6)>> : c \in Cells}

NoPoint == <<0, 0>>

\* rectangles of RegisterSpec: from before the origin to beyond the drawing
\* edge, bare or padded
RectXs == {Half * (grid_size * i - 8) : i \in 0 .. GridCols + 1}
RectYs == {Half * (grid_size * j - 8) : j \in 0 .. GridRows + 1}
RectPaddings == {0, Half * 3}

\* paths of RegisterSpec: up to MaxPathPoints cell centres, in any order
AnyPoints == {<<Half * (grid_size * c[1] + 5), Half * (grid_size * c[2] + 5)>> : c \in Cells}
AnyPaths == UNION {[1 .. n -> AnyPoints] : n \in 0 .. MaxPathPoints}

\* no registration call yet
NoCall == [op |-> "none", rect |-> <<>>, points |-> <<>>, count |-> 0]

\* ---------------------------------------------------------- instrument tags
\* A str is the sequence of its characters; None is the empty sequence where
\* an Optional[Dict] is expected, <<d>> is the dict d.
Upper == {"A", "B", "C", "D", "E", "F", "G", "H", "I", "J", "K", "L", "M",
          "N", "O", "P", "Q", "R", "S", "T", "U", "V", "W", "X", "Y", "Z"}
Digit == {"0", "1", "2", "3", "4", "5", "6", "7", "8", "9"}

\* where a greedy run of characters of the class, starting at position i, stops
RECURSIVE RunEnd(_, _, _)
RunEnd(str, i, class) ==
    IF i <= Len(str) /\ str[i] \in class THEN RunEnd(str, i + 1, class) ELSE i

\* $ of re: the end of the string, or just before a newline that ends it
AtDollar(str, i) == i = Len(str) + 1 \/ (i = Len(str) /\ str[i] = "\n")

\* a plausible slip: the flags looked up in the whole letter prefix, the
\* measured-variable letter included
parse_with_prefix_flags(tag) ==
    LET m == RunEnd(tag, 1, Upper)
        d == IF m <= Len(tag) /\ tag[m] = "-" THEN m + 1 ELSE m
        e == RunEnd(tag, d, Digit)
        prefix == Range(SubSeq(tag, 1, m - 1))
    IN  IF m > 1 /\ e > d /\ AtDollar(tag, e)
        THEN << [variable |-> tag[1],
                 modifiers |-> SubSeq(tag, 2, m - 1),
                 number |-> SubSeq(tag, d, e - 1),
                 is_controller |-> "C" \in prefix,
                 is_transmitter |-> "T" \in prefix,
                 is_valve |-> "V" \in prefix,
                 is_indicator |-> "I" \in prefix,
                 is_alarm |-> "A" \in prefix \/ "H" \in prefix \/ "L" \in prefix] >>
        ELSE <<>>

\* re.match(r'^([A-Z])([A-Z]*)[-]?(\d+)$', tag) and the dict built from its groups
parse_instrument_function(tag) ==
    IF Len(tag) = 0 \/ tag[1] \notin Upper
    THEN <<>>
    ELSE LET m == RunEnd(tag, 2, Upper)
             d == IF m <= Len(tag) /\ tag[m] = "-" THEN m + 1 ELSE m
             e == RunEnd(tag, d, Digit)
             modifiers == SubSeq(tag, 2, m - 1)
         IN  IF e > d /\ AtDollar(tag, e)
             THEN << [variable |-> tag[1],
                      modifiers |-> modifiers,
                      number |-> SubSeq(tag, d, e - 1),
                      is_controller |-> "C" \in Range(modifiers),
                      is_transmitter |-> "T" \in Range(modifiers),
                      is_valve |-> "V" \in Range(modifiers),
                      is_indicator |-> "I" \in Range(modifiers),
                      is_alarm |-> \/ "A" \in Range(modifiers)
                                   \/ "H" \in Range(modifiers)
                                   \/ "L" \in Range(modifiers)] >>
             ELSE <<>>

\* re.match(r'^[A-Z]{2,4}[-]?\d{3,4}[A-Z]?$', tag): the ISA pattern of app.py and
\* the tag_pattern of validate_instrument_tags
instrument_pattern(tag) ==
    LET m == Min(RunEnd(tag, 1, Upper), 5)
        d == IF m <= Len(tag) /\ tag[m] = "-" THEN m + 1 ELSE m
        e == Min(RunEnd(tag, d, Digit), d + 4)
        z == IF e <= Len(tag) /\ tag[e] \in Upper THEN e + 1 ELSE e
    IN  /\ m - 1 >= 2
        /\ e - d >= 3
        /\ AtDollar(tag, z)

\* a plausible slip: every component with a tag is taken as an instrument
check_if_tagged(tag) == tag # <<>>

\* ProfessionalPnidComponent._check_if_instrument
check_if_instrument(tag) == tag # <<>> /\ instrument_pattern(tag)

\* tags given to _parse_instrument_function: up to MaxTagLetters letters, a
\* hyphen or none, a number or none, and what may follow it
TagLetters == {"F", "L", "P", "T", "C", "V", "I", "A", "H"}
LetterRuns == UNION {[1 .. n -> TagLetters] : n \in 0 .. MaxTagLetters}
Hyphens == {<<>>, <<"-">>}
Numbers == {<<>>, <<"7">>, <<"1", "0", "1">>, <<"1", "0", "2">>, <<"0", "0", "1">>}
Endings == {<<>>, <<"A">>, <<"a">>, <<"\n">>, <<"\n", "\n">>}
TagInputs == {l \o y \o n \o z : l \in LetterRuns, y \in Hyphens, n \in Numbers, z \in Endings}

\* a component reference that did not resolve: component_map.get(...) is None
None == "None"

\* no drawing is loaded
NoDrawing ==
    /\ components = <<>>
    /\ pipes = <<>>
    /\ control_loops = <<>>
    /\ interlocks = <<>>
    /\ errors = <<>>
    /\ warnings = <<>>
    /\ apc = "drawn"
    /\ find_id = None
    /\ find_connected = <<>>
    /\ results = <<>>

\* no _parse_instrument_function call is made
NoParseCall ==
    /\ parse_tag = <<>>
    /\ parse_result = <<>>
    /\ parse_pc = "idle"

\* a router with nothing registered and no find_path call made
NoRouting ==
    /\ obstacles = {}
    /\ pipes_grid = {}
    /\ pc = "idle"
    /\ start = NoPoint
    /\ end = NoPoint
    /\ prefer_straight = TRUE
    /\ open_set = <<>>
    /\ closed_set = {}
    /\ raw_path = <<>>
    /\ path = <<>>
    /\ via = "none"
    /\ previous = <<>>
    /\ last_call = NoCall

\* ----------------------------------------------------------------- actions
Init ==
    /\ obstacles = {}
    /\ pipes_grid = {}
    /\ pc = "idle"
    /\ start = NoPoint
    /\ end = NoPoint
    /\ prefer_straight = TRUE
    /\ open_set = <<>>
    /\ closed_set = {}
    /\ raw_path = <<>>
    /\ path = <<>>
    /\ via = "none"
    /\ previous = <<>>
    /\ last_call = NoCall
    /\ NoDrawing
    /\ NoParseCall

\* the frame of the latest find_path call is dropped when the router changes
ClearCall ==
    /\ pc' = "idle"
    /\ start' = NoPoint
    /\ end' = NoPoint
    /\ prefer_straight' = TRUE
    /\ open_set' = <<>>
    /\ closed_set' = {}
    /\ raw_path' = <<>>
    /\ path' = <<>>
    /\ via' = "none"
    /\ previous' = <<>>

\* a plausible slip: the obstacle set assigned from the component instead of
\* added to
AssignComponentObstacle ==
    /\ pc # "search"
    /\ \E x \in CompXs, y \in CompYs, w \in CompSizes, h \in CompSizes, padding \in Paddings :
          /\ obstacles' = ObstacleCells(x, y, w, h, padding)
          /\ obstacles' # obstacles
          /\ Cardinality(obstacles') <= MaxObstacleCells
    /\ pipes_grid' = pipes_grid
    /\ ClearCall
    /\ UNCHANGED <<last_call, drawing, parsing>>

AddComponentObstacle ==
    /\ pc # "search"
    /\ \E x \in CompXs, y \in CompYs, w \in CompSizes, h \in CompSizes, padding \in Paddings :
          /\ obstacles' = obstacles \cup ObstacleCells(x, y, w, h, padding)
          /\ obstacles' # obstacles
          /\ Cardinality(obstacles') <= MaxObstacleCells
    /\ pipes_grid' = pipes_grid
    /\ ClearCall
    /\ UNCHANGED <<last_call, drawing, parsing>>

AddPipePath ==
    /\ pc # "search"
    /\ \E points \in PipePaths :
          /\ pipes_grid' = pipes_grid \cup PipeCells(points)
          /\ pipes_grid' # pipes_grid
          /\ Cardinality(pipes_grid') <= MaxPipeCells
    /\ obstacles' = obstacles
    /\ ClearCall
    /\ UNCHANGED <<last_call, drawing, parsing>>

\* find_path up to the first test of the while loop
Enter(s, e, ps) ==
    /\ start' = s
    /\ end' = e
    /\ prefer_straight' = ps
    /\ open_set' = heappush(<<>>, GridNode(ToGrid(s[1]), ToGrid(s[2]), 0,
                              heuristic(<<ToGrid(s[1]), ToGrid(s[2])>>,
                                        <<ToGrid(e[1]), ToGrid(e[2])>>), <<>>))
    /\ pc' = "search"
    /\ closed_set' = {}
    /\ raw_path' = <<>>
    /\ path' = <<>>
    /\ via' = "none"
    /\ UNCHANGED <<obstacles, pipes_grid, last_call, drawing, parsing>>

\* a call of find_path
FindPath ==
    /\ pc = "idle"
    /\ \E s \in StartPoints, e \in EndPoints, ps \in BOOLEAN : Enter(s, e, ps)
    /\ previous' = <<>>

\* the same call once more, on the unchanged router
FindPathAgain ==
    /\ pc = "returned"
    /\ Len(previous) + 1 < MaxCalls
    /\ Enter(start, end, prefer_straight)
    /\ previous' = Append(previous, path)

\* the caller drops the returned path
Discard ==
    /\ pc = "returned"
    /\ ClearCall
    /\ UNCHANGED <<obstacles, pipes_grid, last_call, drawing, parsing>>

\* a plausible slip: the router marks the cells of the path it returns as
\* pipe-occupied itself
PopGoalMarkingPath ==
    /\ pc = "search"
    /\ open_set # <<>>
    /\ \E p \in PopChoices(open_set) :
          /\ <<p.item.x, p.item.y>> = EndGrid
          /\ open_set' = p.heap
          /\ raw_path' = Reconstruct(p.item)
          /\ path' = ExactEnds(IF prefer_straight THEN smooth_path(Reconstruct(p.item))
                                                  ELSE Reconstruct(p.item), start, end)
          /\ pipes_grid' = pipes_grid \cup Range(Chain(p.item))
    /\ via' = "search"
    /\ pc' = "returned"
    /\ UNCHANGED <<obstacles, start, end, prefer_straight, closed_set, previous, last_call,
                   drawing, parsing>>

\* one iteration of the while loop that pops the goal and returns
PopGoal ==
    /\ pc = "search"
    /\ open_set # <<>>
    /\ \E p \in PopChoices(open_set) :
          /\ <<p.item.x, p.item.y>> = EndGrid
          /\ open_set' = p.heap
          /\ raw_path' = Reconstruct(p.item)
          /\ path' = ExactEnds(IF prefer_straight THEN smooth_path(Reconstruct(p.item))
                                                  ELSE Reconstruct(p.item), start, end)
    /\ via' = "search"
    /\ pc' = "returned"
    /\ UNCHANGED <<obstacles, pipes_grid, start, end, prefer_straight, closed_set, previous,
                   last_call, drawing, parsing>>

\* one iteration of the while loop that pops another node and explores it
PopExplore ==
    /\ pc = "search"
    /\ open_set # <<>>
    /\ \E p \in PopChoices(open_set) :
          /\ <<p.item.x, p.item.y>> # EndGrid
          /\ closed_set' = closed_set \cup {<<p.item.x, p.item.y>>}
          /\ \E nbrs \in {get_neighbors(p.item)} :
                open_set' = Explore(p.heap, p.item, nbrs, closed_set')
    /\ UNCHANGED <<obstacles, pipes_grid, pc, start, end, prefer_straight, raw_path,
                   path, via, previous, last_call, drawing, parsing>>

\* the while loop ends with the open set empty: return self._fallback_path(start, end)
NoPathFound ==
    /\ pc = "search"
    /\ open_set = <<>>
    /\ path' = fallback_path(start, end)
    /\ via' = "fallback"
    /\ pc' = "returned"
    /\ UNCHANGED <<obstacles, pipes_grid, start, end, prefer_straight, open_set,
                   closed_set, raw_path, previous, last_call,
                   drawing, parsing>>

Next ==
    \/ AddComponentObstacle
    \/ AddPipePath
    \/ FindPath
    \/ Discard
    \/ PopGoal
    \/ PopExplore
    \/ NoPathFound

Spec == Init /\ [][Next]_vars

\* with every call repeated on the unchanged router
NextRepeat ==
    \/ Next
    \/ FindPathAgain

SpecRepeat == Init /\ [][NextRepeat]_vars

\* the while loop keeps running until find_path returns
LiveSpec == Spec /\ WF_vars(PopGoal \/ PopExplore \/ NoPathFound)

\* ------------------------------------------------- the registration calls
\* The router while the drawing is set up, before any pipe is routed: calls of
\* add_component_obstacle and add_pipe_path with their arguments remembered.
RegisterObstacle ==
    /\ pc = "idle"
    /\ last_call.count < MaxRegisterCalls
    /\ \E x \in RectXs, y \in RectYs, w \in CompSizes, h \in CompSizes, padding \in RectPaddings :
          /\ obstacles' = obstacles \cup ObstacleCells(x, y, w, h, padding)
          /\ last_call' = [op |-> "add_component_obstacle", rect |-> <<x, y, w, h, padding>>,
                           points |-> <<>>, count |-> last_call.count + 1]
    /\ UNCHANGED <<pipes_grid, pc, start, end, prefer_straight, open_set, closed_set,
                   raw_path, path, via, previous, drawing, parsing>>

RegisterPipe ==
    /\ pc = "idle"
    /\ last_call.count < MaxRegisterCalls
    /\ \E points \in AnyPaths :
          /\ pipes_grid' = pipes_grid \cup PipeCells(points)
          /\ last_call' = [op |-> "add_pipe_path", rect |-> <<>>, points |-> points,
                           count |-> last_call.count + 1]
    /\ UNCHANGED <<obstacles, pc, start, end, prefer_straight, open_set, closed_set,
                   raw_path, path, via, previous, drawing, parsing>>

NextRegister ==
    \/ RegisterObstacle
    \/ RegisterPipe

RegisterSpec == Init /\ [][NextRegister]_vars

\* ------------------------------------------------------------- the drawing
\* str values that the code searches or takes apart are sequences of
\* characters; str values it only compares (line_type, ports, ids) are strings.
UpperSeq == <<"A", "B", "C", "D", "E", "F", "G", "H", "I", "J", "K", "L", "M",
              "N", "O", "P", "Q", "R", "S", "T", "U", "V", "W", "X", "Y", "Z">>
LowerSeq == <<"a", "b", "c", "d", "e", "f", "g", "h", "i", "j", "k", "l", "m",
              "n", "o", "p", "q", "r", "s", "t", "u", "v", "w", "x", "y", "z">>

\* str.lower()
lower(str) ==
    [i \in 1 .. Len(str) |->
        IF str[i] \in Upper
        THEN LowerSeq[CHOOSE k \in 1 .. 26 : UpperSeq[k] = str[i]]
        ELSE str[i]]

\* sub in str
Contains(str, sub) ==
    \E i \in 1 .. Len(str) - Len(sub) + 1 : SubSeq(str, i, i + Len(sub) - 1) = sub

\* ProfessionalPnidComponent(row): the attributes the analysis reads; tag_info
\* is not an attribute until _preprocess_components sets it
Component(id, tag, component_type) ==
    [id |-> id, tag |-> tag, component_type |-> component_type,
     is_instrument |-> check_if_instrument(tag),
     has_tag_info |-> FALSE, tag_info |-> <<>>]

\* ProfessionalPnidPipe(row, component_map): from_comp and to_comp are the id of
\* the component referred to, or None
Pipe(from_comp, to_comp, line_type) ==
    [from_comp |-> from_comp, to_comp |-> to_comp, line_type |-> line_type,
     label |-> <<>>, from_port |-> "default", to_port |-> "default"]

\* self.components[id]
CompOf(comps, id) == comps[CHOOSE i \in 1 .. Len(comps) : comps[i].id = id]

\* id in self.components
HasComp(comps, id) == \E i \in 1 .. Len(comps) : comps[i].id = id

\* _preprocess_components: tag_info set on every component
preprocess_components(comps) ==
    [i \in 1 .. Len(comps) |->
        IF comps[i].is_instrument
        THEN [comps[i] EXCEPT !.has_tag_info = TRUE,
                              !.tag_info = parse_instrument_function(comps[i].tag)]
        ELSE IF ~comps[i].has_tag_info \/ ~comps[i].is_instrument
             THEN [comps[i] EXCEPT !.has_tag_info = TRUE, !.tag_info = <<>>]
             ELSE comps[i]]

\* the for loop of _find_connected_instruments over the pipes ps.
\* raised: pipe.to_comp.id or pipe.from_comp.id was read on None
\* (AttributeError)
RECURSIVE FindConnected(_, _, _)
FindConnected(ps, component_id, connected) ==
    IF ps = <<>>
    THEN [raised |-> FALSE, connected |-> connected]
    ELSE LET p == Head(ps)
         IN  IF p.line_type = "instrumentation"
             THEN IF p.from_comp # None /\ p.from_comp = component_id
                  THEN IF p.to_comp = None
                       THEN [raised |-> TRUE, connected |-> connected]
                       ELSE FindConnected(Tail(ps), component_id,
                                          Append(connected, p.to_comp))
                  ELSE IF p.to_comp # None /\ p.to_comp = component_id
                       THEN IF p.from_comp = None
                            THEN [raised |-> TRUE, connected |-> connected]
                            ELSE FindConnected(Tail(ps), component_id,
                                               Append(connected, p.from_comp))
                       ELSE FindConnected(Tail(ps), component_id, connected)
             ELSE FindConnected(Tail(ps), component_id, connected)

find_connected_instruments(ps, component_id) == FindConnected(ps, component_id, <<>>)

\* a plausible slip: the roles are tested in the opposite order
BucketAlarmFirst(comp) ==
    IF comp.is_instrument /\ comp.tag_info # <<>>
    THEN IF comp.tag_info[1].is_alarm THEN "alarms"
         ELSE IF comp.tag_info[1].is_valve THEN "control_valves"
         ELSE IF comp.tag_info[1].is_transmitter THEN "transmitters"
         ELSE IF comp.tag_info[1].is_controller THEN "controllers"
         ELSE "none"
    ELSE "none"

\* the bucket _analyze_control_systems puts the component in: the first of
\* is_controller, is_transmitter, is_valve, is_alarm that is set
Bucket(comp) ==
    IF comp.is_instrument /\ comp.tag_info # <<>>
    THEN IF comp.tag_info[1].is_controller THEN "controllers"
         ELSE IF comp.tag_info[1].is_transmitter THEN "transmitters"
         ELSE IF comp.tag_info[1].is_valve THEN "control_valves"
         ELSE IF comp.tag_info[1].is_alarm THEN "alarms"
         ELSE "none"
    ELSE "none"

\* the ids of a bucket, in the order of self.components
BucketIds(comps, bucket) ==
    LET members == SelectSeq(comps, LAMBDA c : Bucket(c) = bucket)
    IN  [i \in 1 .. Len(members) |-> members[i].id]

\* a plausible slip: the final element must be a valve by its tag
is_final_element_by_tag(comps, conn_id) ==
    HasComp(comps, conn_id) /\ Bucket(CompOf(comps, conn_id)) = "control_valves"

\* conn_id in control_valves, or in self.components with 'valve' in its component_type
is_final_element(comps, conn_id) ==
    \/ HasComp(comps, conn_id) /\ Bucket(CompOf(comps, conn_id)) = "control_valves"
    \/ HasComp(comps, conn_id) /\ Contains(CompOf(comps, conn_id).component_type, <<"v", "a", "l", "v", "e">>)

\* conn_id in transmitters, with the variable and the number of the controller
is_matching_transmitter(comps, conn_id, controller_info) ==
    /\ HasComp(comps, conn_id)
    /\ Bucket(CompOf(comps, conn_id)) = "transmitters"
    /\ CompOf(comps, conn_id).tag_info[1].variable = controller_info.variable
    /\ CompOf(comps, conn_id).tag_info[1].number = controller_info.number

\* the last element of the sequence that is among the wanted ones, <<>> if
\* none is: the value of a variable that starts as None and is assigned in a
\* for loop
LastThat(seq, wanted) ==
    LET hits == {i \in 1 .. Len(seq) : seq[i] \in wanted}
    IN  IF hits = {} THEN <<>> ELSE <<seq[CHOOSE i \in hits : \A j \in hits : j <= i]>>

\* _determine_loop_type
determine_loop_type(variable) ==
    IF variable = "F" THEN "Flow Control"
    ELSE IF variable = "P" THEN "Pressure Control"
    ELSE IF variable = "L" THEN "Level Control"
    ELSE IF variable = "T" THEN "Temperature Control"
    ELSE "Flow Control"

\* ControlLoop(loop_id, loop_type, primary_element, controller, final_element)
\* after __post_init__
ControlLoop(loop_id, loop_type, primary_element, controller, final_element) ==
    [loop_id |-> loop_id, loop_type |-> loop_type, primary_element |-> primary_element,
     controller |-> controller, final_element |-> final_element,
     components |-> <<primary_element, controller, final_element>>]

\* a plausible slip: a loop is appended as soon as one of the two is found,
\* the other left empty
LoopsOfPartial(comps, ps, controller_id) ==
    LET controller_info == CompOf(comps, controller_id).tag_info[1]
        found == find_connected_instruments(ps, controller_id)
        transmitter_id == LastThat(found.connected,
                              {c \in Range(found.connected) :
                                  is_matching_transmitter(comps, c, controller_info)})
        final_element_id == LastThat(found.connected,
                                {c \in Range(found.connected) : is_final_element(comps, c)})
    IN  IF found.raised
        THEN [raised |-> TRUE, loops |-> <<>>]
        ELSE IF transmitter_id # <<>> \/ final_element_id # <<>>
             THEN [raised |-> FALSE,
                   loops |-> << ControlLoop(<<controller_info.variable, "C", "-">>
                                                \o controller_info.number,
                                            determine_loop_type(controller_info.variable),
                                            IF transmitter_id = <<>> THEN ""
                                            ELSE transmitter_id[1],
                                            controller_id,
                                            IF final_element_id = <<>> THEN ""
                                            ELSE final_element_id[1]) >>]
             ELSE [raised |-> FALSE, loops |-> <<>>]

\* the body of the for loop over the controllers, for one controller: the
\* loops it appends (none or one), or raised
LoopsOf(comps, ps, controller_id) ==
    LET controller_info == CompOf(comps, controller_id).tag_info[1]
        found == find_connected_instruments(ps, controller_id)
        transmitter_id == LastThat(found.connected,
                              {c \in Range(found.connected) :
                                  is_matching_transmitter(comps, c, controller_info)})
        final_element_id == LastThat(found.connected,
                                {c \in Range(found.connected) : is_final_element(comps, c)})
    IN  IF found.raised
        THEN [raised |-> TRUE, loops |-> <<>>]
        ELSE IF transmitter_id # <<>> /\ final_element_id # <<>>
             THEN [raised |-> FALSE,
                   loops |-> << ControlLoop(<<controller_info.variable, "C", "-">>
                                                \o controller_info.number,
                                            determine_loop_type(controller_info.variable),
                                            transmitter_id[1], controller_id,
                                            final_element_id[1]) >>]
             ELSE [raised |-> FALSE, loops |-> <<>>]

\* comp.tag holds SDV or XV, or trip in any case
is_shutdown_tag(tag) ==
    \/ Contains(tag, <<"S", "D", "V">>)
    \/ Contains(tag, <<"X", "V">>)
    \/ Contains(lower(tag), <<"t", "r", "i", "p">>)

\* the body of the for loop over the alarms, for one alarm: the interlocks it
\* appends, or raised
InterlocksOf(comps, ps, alarm_id) ==
    LET found == find_connected_instruments(ps, alarm_id)
        actions == SelectSeq(found.connected,
                       LAMBDA c : HasComp(comps, c) /\ is_shutdown_tag(CompOf(comps, c).tag))
    IN  IF found.raised
        THEN [raised |-> TRUE, interlocks |-> <<>>]
        ELSE [raised |-> FALSE,
              interlocks |-> [i \in 1 .. Len(actions) |->
                                 [alarm |-> alarm_id, action |-> actions[i],
                                  type |-> "Safety Interlock"]]]

\* the for loop over the controllers
RECURSIVE AllLoops(_, _, _, _)
AllLoops(comps, ps, ids, loops) ==
    IF ids = <<>>
    THEN [raised |-> FALSE, loops |-> loops]
    ELSE LET one == LoopsOf(comps, ps, Head(ids))
         IN  IF one.raised
             THEN [raised |-> TRUE, loops |-> loops]
             ELSE AllLoops(comps, ps, Tail(ids), loops \o one.loops)

\* the for loop over the alarms
RECURSIVE AllInterlocks(_, _, _, _)
AllInterlocks(comps, ps, ids, locks) ==
    IF ids = <<>>
    THEN [raised |-> FALSE, interlocks |-> locks]
    ELSE LET one == InterlocksOf(comps, ps, Head(ids))
         IN  IF one.raised
             THEN [raised |-> TRUE, interlocks |-> locks]
             ELSE AllInterlocks(comps, ps, Tail(ids), locks \o one.interlocks)

\* _analyze_control_systems on preprocessed components: the two lists, or raised
analyze_control_systems(comps, ps) ==
    LET loops == AllLoops(comps, ps, BucketIds(comps, "controllers"), <<>>)
        locks == AllInterlocks(comps, ps, BucketIds(comps, "alarms"), <<>>)
    IN  IF loops.raised \/ locks.raised
        THEN [raised |-> TRUE, control_loops |-> <<>>, interlocks |-> <<>>]
        ELSE [raised |-> FALSE, control_loops |-> loops.loops, interlocks |-> locks.interlocks]

\* ---------------------------------------------------------- PnIDValidator
\* a message is the tuple of its fixed text and of the values formatted into it

\* re.match(r'^([A-Z]+)[-]?(\d+)([A-Z]?)$', tag): the fallback of
\* validate_instrument_tags for an instrument without tag_info
fallback_match(tag) ==
    LET m == RunEnd(tag, 1, Upper)
        d == IF m <= Len(tag) /\ tag[m] = "-" THEN m + 1 ELSE m
        e == RunEnd(tag, d, Digit)
        z == IF e <= Len(tag) /\ tag[e] \in Upper THEN e + 1 ELSE e
    IN  IF m > 1 /\ e > d /\ AtDollar(tag, z)
        THEN << [prefix |-> SubSeq(tag, 1, m - 1), number |-> SubSeq(tag, d, e - 1),
                 suffix |-> SubSeq(tag, e, z - 1)] >>
        ELSE <<>>

valid_prefixes ==
    {
     <<"F">>, <<"P">>, <<"T">>, <<"L">>, <<"A">>,
     <<"V">>, <<"E">>, <<"I">>, <<"S">>, <<"Z">>,
     <<"F", "T">>, <<"P", "T">>, <<"T", "T">>, <<"L", "T">>, <<"F", "I">>,
     <<"P", "I">>, <<"T", "I">>, <<"L", "I">>, <<"F", "C">>, <<"P", "C">>,
     <<"T", "C">>, <<"L", "C">>, <<"F", "I", "C">>, <<"P", "I", "C">>, <<"T", "I", "C">>,
     <<"L", "I", "C">>, <<"F", "V">>, <<"P", "V">>, <<"T", "V">>, <<"L", "V">>,
     <<"F", "C", "V">>, <<"P", "C", "V">>, <<"T", "C", "V">>, <<"L", "C", "V">>, <<"F", "A", "L">>,
     <<"P", "A", "L">>, <<"T", "A", "L">>, <<"L", "A", "L">>, <<"F", "A", "H">>, <<"P", "A", "H">>,
     <<"T", "A", "H">>, <<"L", "A", "H">>, <<"S", "F">>, <<"Y", "S">>, <<"C", "P">>,
     <<"C", "P", "T">>, <<"S", "C", "R">>, <<"S", "I", "L">>, <<"G", "V">>, <<"P", "R">>,
     <<"R", "M">>, <<"L", "S">>, <<"F", "S">>, <<"F", "A">>, <<"D", "P">>
    }

\* the parts of the tag validate_instrument_tags works with: from tag_info, or
\* from the fallback pattern; <<>> when the component is skipped (continue)
TagParts(comp) ==
    IF comp.tag_info # <<>>
    THEN << [prefix |-> <<comp.tag_info[1].variable>> \o comp.tag_info[1].modifiers,
             number |-> comp.tag_info[1].number, suffix |-> <<>>] >>
    ELSE fallback_match(comp.tag)

\* a plausible slip: the suffix is left out of the key
FullTagWithoutSuffix(parts) == parts.prefix \o <<"-">> \o parts.number

\* f"{prefix}-{number}{suffix}"
FullTag(parts) == parts.prefix \o <<"-">> \o parts.number \o parts.suffix

\* the for loop of validate_instrument_tags: acc holds errors, warnings and
\* the keys of tag_numbers
RECURSIVE TagLoop(_, _)
TagLoop(comps, acc) ==
    IF comps = <<>>
    THEN acc
    ELSE LET comp == Head(comps)
             format == IF instrument_pattern(comp.tag)
                       THEN acc.errors
                       ELSE Append(acc.errors, <<"Invalid instrument tag format", comp.tag>>)
             parts == TagParts(comp)
             after ==
                 IF ~comp.is_instrument
                 THEN acc
                 ELSE IF parts = <<>>
                      THEN [acc EXCEPT !.errors = format]
                      ELSE [errors |-> IF FullTag(parts[1]) \in acc.tag_numbers
                                       THEN Append(format, <<"Duplicate instrument tag", comp.tag>>)
                                       ELSE format,
                            warnings |-> IF parts[1].prefix \in valid_prefixes
                                         THEN acc.warnings
                                         ELSE Append(acc.warnings,
                                                     <<"Non-standard instrument prefix",
                                                       parts[1].prefix, comp.tag>>),
                            tag_numbers |-> acc.tag_numbers \cup {FullTag(parts[1])}]
         IN  CHOOSE out \in {TagLoop(rest, a) : rest \in {Tail(comps)}, a \in {after}} : TRUE

\* validate_instrument_tags: errors and warnings after it
validate_instrument_tags(comps, errs, warns) ==
    LET out == TagLoop(comps, [errors |-> errs, warnings |-> warns, tag_numbers |-> {}])
    IN  [errors |-> out.errors, warnings |-> out.warnings]

valid_vessel_inlets == {"top", "inlet", "side_top", "side_bottom"}

\* validate_flow_directions: the warnings one pipe adds
FlowWarnings(comps, pipe) ==
    IF pipe.line_type = "process" /\ pipe.from_comp # None /\ pipe.to_comp # None
    THEN (IF /\ Contains(CompOf(comps, pipe.from_comp).component_type, <<"p", "u", "m", "p">>)
             /\ pipe.from_port # "discharge"
          THEN << <<"Pump should connect from discharge port",
                    CompOf(comps, pipe.from_comp).tag>> >>
          ELSE <<>>)
         \o
         (IF /\ \/ Contains(CompOf(comps, pipe.to_comp).component_type, <<"v", "e", "s", "s", "e", "l">>)
                \/ Contains(CompOf(comps, pipe.to_comp).component_type, <<"t", "a", "n", "k">>)
             /\ pipe.to_port \notin valid_vessel_inlets
          THEN << <<"Vessel inlet should be from a standard inlet port",
                    CompOf(comps, pipe.to_comp).tag, pipe.to_port>> >>
          ELSE <<>>)
    ELSE <<>>

RECURSIVE validate_flow_directions(_, _, _)
validate_flow_directions(comps, ps, warns) ==
    IF ps = <<>>
    THEN warns
    ELSE validate_flow_directions(comps, Tail(ps), warns \o FlowWarnings(comps, Head(ps)))

\* size_pattern.match(label) with size_pattern = r'^(\d+)"?-([A-Z]+)-(\d+)'
size_match(label) ==
    LET a == RunEnd(label, 1, Digit)
        q == IF a <= Len(label) /\ label[a] = "\"" THEN a + 1 ELSE a
        b == RunEnd(label, q + 1, Upper)
        c == RunEnd(label, b + 1, Digit)
    IN  IF /\ a > 1
           /\ q <= Len(label) /\ label[q] = "-"
           /\ b > q + 1
           /\ b <= Len(label) /\ label[b] = "-"
           /\ c > b + 1
        THEN << [size |-> SubSeq(label, 1, a - 1), service |-> SubSeq(label, q + 1, b - 1),
                 number |-> SubSeq(label, b + 1, c - 1)] >>
        ELSE <<>>

\* the for loop of validate_line_sizing: acc holds warnings and line_sizes, a
\* function from the keys seen to the size kept for each
RECURSIVE SizeLoop(_, _)
SizeLoop(ps, acc) ==
    IF ps = <<>>
    THEN acc
    ELSE LET m == IF Head(ps).label # <<>> THEN size_match(Head(ps).label) ELSE <<>>
             key == m[1].service \o <<"-">> \o m[1].number
             after ==
                 IF m = <<>>
                 THEN acc
                 ELSE [warnings |->
                           IF key \in DOMAIN acc.line_sizes /\ acc.line_sizes[key] # m[1].size
                           THEN Append(acc.warnings, <<"Inconsistent line sizing", key,
                                                       m[1].size, acc.line_sizes[key]>>)
                           ELSE acc.warnings,
                       line_sizes |-> [k \in DOMAIN acc.line_sizes \cup {key} |->
                                          IF k = key THEN m[1].size ELSE acc.line_sizes[k]]]
         IN  CHOOSE out \in {SizeLoop(rest, a) : rest \in {Tail(ps)}, a \in {after}} : TRUE

validate_line_sizing(ps, warns) ==
    SizeLoop(ps, [warnings |-> warns, line_sizes |-> [k \in {} |-> <<>>]]).warnings

\* the for loop of validate_control_loops over the loops of the new analyzer
RECURSIVE LoopErrors(_, _)
LoopErrors(loops, errs) ==
    IF loops = <<>>
    THEN errs
    ELSE LoopErrors(Tail(loops),
             errs \o (IF Head(loops).primary_element = ""
                      THEN << <<"Control loop missing primary element", Head(loops).loop_id>> >>
                      ELSE <<>>)
                  \o (IF Head(loops).final_element = ""
                      THEN << <<"Control loop missing final control element",
                                Head(loops).loop_id>> >>
                      ELSE <<>>))

\* some pipe leads from the vessel to a component tagged PSV or PRV
has_psv(comps, ps, vessel) ==
    \E i \in 1 .. Len(ps) :
        /\ ps[i].from_comp # None /\ ps[i].from_comp = vessel.id
        /\ ps[i].to_comp # None
        /\ \/ Contains(CompOf(comps, ps[i].to_comp).tag, <<"P", "S", "V">>)
           \/ Contains(CompOf(comps, ps[i].to_comp).tag, <<"P", "R", "V">>)

\* validate_safety_systems: the warnings it appends
SafetyWarnings(comps, ps) ==
    LET vessels == SelectSeq(comps, LAMBDA c : \/ Contains(c.component_type, <<"v", "e", "s", "s", "e", "l">>)
                                               \/ Contains(c.component_type, <<"t", "a", "n", "k">>))
        unprotected == SelectSeq(vessels, LAMBDA v : ~has_psv(comps, ps, v))
    IN  [i \in 1 .. Len(unprotected) |->
            <<"Vessel should have pressure relief protection", unprotected[i].tag>>]

\* validate_all on preprocessed components: the two lists of the validator
\* after the call, and whether the call raised (in validate_control_loops, the
\* only check that can: then the last two checks have not run)
validate_all(comps, ps, errs, warns) ==
    LET tags == validate_instrument_tags(comps, errs, warns)
        flow == validate_flow_directions(comps, ps, tags.warnings)
        sizing == validate_line_sizing(ps, flow)
        analysis == analyze_control_systems(preprocess_components(comps), ps)
    IN  IF analysis.raised
        THEN [raised |-> TRUE, errors |-> tags.errors, warnings |-> sizing]
        ELSE [raised |-> FALSE,
              errors |-> LoopErrors(analysis.control_loops, tags.errors),
              warnings |-> sizing \o SafetyWarnings(comps, ps)]

\* ------------------------------------------------------ drawings analysed
instrument == <<"i", "n", "s", "t", "r", "u", "m", "e", "n", "t">>
valve == <<"v", "a", "l", "v", "e">>

\* the kinds of component of a drawing: tag and component_type
ComponentKinds ==
    { << <<"F", "I", "C", "-", "1", "0", "1">>, instrument >>,
      << <<"F", "T", "-", "1", "0", "1">>, instrument >>,
      << <<"F", "T", "-", "1", "0", "2">>, instrument >>,
      << <<"P", "T", "-", "1", "0", "1">>, instrument >>,
      << <<"F", "C", "V", "-", "1", "0", "1">>, valve >>,
      << <<"F", "V", "-", "2", "0", "1">>, instrument >>,
      << <<"L", "A", "H", "-", "1", "0", "2">>, instrument >>,
      << <<"P", "T", "-", "1", "0", "1", "A">>, instrument >>,
      << <<"F", "T", "-", "1", "0", "1">>, valve >> }

\* the ids of the components, in the order of the dict
Ids == <<"c1", "c2", "c3", "c4">>
IdOf(i) == Ids[i]

\* the dicts of up to MaxComponents components
ComponentDicts ==
    UNION {{[i \in 1 .. n |-> Component(IdOf(i), kinds[i][1], kinds[i][2])] :
               kinds \in [1 .. n -> ComponentKinds]} : n \in 0 .. MaxComponents}

\* the pipes a drawing may hold: signal lines around the first component, in
\* both directions, one between the two others, one process line, and signal
\* lines with an end that did not resolve
PipeCatalogue ==
    { Pipe(IdOf(1), IdOf(2), "instrumentation"), Pipe(IdOf(2), IdOf(1), "instrumentation"),
      Pipe(IdOf(1), IdOf(3), "instrumentation"), Pipe(IdOf(3), IdOf(1), "instrumentation"),
      Pipe(IdOf(2), IdOf(3), "instrumentation"), Pipe(IdOf(1), IdOf(2), "process"),
      Pipe(IdOf(1), None, "instrumentation"), Pipe(None, IdOf(1), "instrumentation") }

\* the pipe lists of up to MaxPipes pipes between the components of the dict
PipeLists(comps) ==
    LET ends == {comps[i].id : i \in 1 .. Len(comps)} \cup {None}
        usable == {p \in PipeCatalogue : p.from_comp \in ends /\ p.to_comp \in ends}
    IN  UNION {[1 .. n -> usable] : n \in 0 .. MaxPipes}

\* --------------------------------------------------- the analysis actions
\* The app with a drawing loaded: the Analyze button constructs a
\* ControlSystemAnalyzer, the Validate button a PnIDValidator and calls its
\* validate_all.
DrawingInit ==
    /\ obstacles = {}
    /\ pipes_grid = {}
    /\ pc = "idle"
    /\ start = NoPoint
    /\ end = NoPoint
    /\ prefer_straight = TRUE
    /\ open_set = <<>>
    /\ closed_set = {}
    /\ raw_path = <<>>
    /\ path = <<>>
    /\ via = "none"
    /\ previous = <<>>
    /\ last_call = NoCall
    /\ NoParseCall
    /\ components \in ComponentDicts
    /\ pipes \in PipeLists(components)
    /\ control_loops = <<>>
    /\ interlocks = <<>>
    /\ errors = <<>>
    /\ warnings = <<>>
    /\ apc = "drawn"
    /\ find_id = None
    /\ find_connected = <<>>
    /\ results = <<>>

\* ControlSystemAnalyzer(components, pipes): _preprocess_components, then
\* _analyze_control_systems, which may raise AttributeError
NewAnalyzer ==
    /\ apc = "drawn"
    /\ components' = preprocess_components(components)
    /\ \E analysis \in {analyze_control_systems(preprocess_components(components), pipes)} :
          /\ control_loops' = analysis.control_loops
          /\ interlocks' = analysis.interlocks
          /\ apc' = IF analysis.raised THEN "raised" ELSE "analyzed"
    /\ UNCHANGED <<pipes, errors, warnings, find_id, find_connected, results,
                   routing, parsing>>

\* analyzer._find_connected_instruments(X) on the analyzer constructed
FindConnectedInstruments ==
    /\ apc = "analyzed"
    /\ \E X \in {components[i].id : i \in 1 .. Len(components)} :
          /\ find_id' = X
          /\ \E found \in {find_connected_instruments(pipes, X)} :
                /\ find_connected' = found.connected
                /\ apc' = IF found.raised THEN "raised" ELSE "connected"
    /\ UNCHANGED <<components, pipes, control_loops, interlocks, errors, warnings,
                   results, routing, parsing>>

\* PnIDValidator(components, pipes): the two empty lists, then the
\* temp_analyzer, whose construction may raise and which is dropped
NewValidator ==
    /\ apc \in {"drawn", "analyzed"}
    /\ components' = preprocess_components(components)
    /\ errors' = <<>>
    /\ warnings' = <<>>
    /\ \E analysis \in {analyze_control_systems(preprocess_components(components), pipes)} :
          apc' = IF analysis.raised THEN "raised" ELSE "validator"
    /\ results' = <<>>
    /\ UNCHANGED <<pipes, control_loops, interlocks, find_id, find_connected,
                   routing, parsing>>

\* a result dict that holds copies of the two lists
ResultCopy(errs, warns) ==
    [errors |-> <<"list", errs>>, warnings |-> <<"list", warns>>, is_valid |-> errs = <<>>]

\* the dict validate_all returns: 'errors' and 'warnings' are the validator's
\* own list objects, is_valid is computed at the return
Result(errs, warns) ==
    [errors |-> <<"self", "errors">>, warnings |-> <<"self", "warnings">>,
     is_valid |-> errs = <<>>]

\* the list a result dict shows under 'errors' or 'warnings' when it is read
ListOf(held) ==
    IF held[1] = "self"
    THEN (IF held[2] = "errors" THEN errors ELSE warnings)
    ELSE held[2]

\* validator.validate_all(), on a new validator or on one that has validated
ValidateAll ==
    /\ apc \in {"validator", "validated"}
    /\ Len(results) < MaxValidateCalls
    /\ \E out \in {validate_all(components, pipes, errors, warnings)} :
          /\ errors' = out.errors
          /\ warnings' = out.warnings
          /\ apc' = IF out.raised THEN "raised" ELSE "validated"
          /\ results' = IF out.raised THEN results
                        ELSE Append(results, Result(out.errors, out.warnings))
    /\ components' = preprocess_components(components)
    /\ UNCHANGED <<pipes, control_loops, interlocks, find_id, find_connected,
                   routing, parsing>>

DrawingNext ==
    \/ NewAnalyzer
    \/ FindConnectedInstruments
    \/ NewValidator
    \/ ValidateAll

DrawingSpec == DrawingInit /\ [][DrawingNext]_vars

\* ------------------------------------------- drawings with shutdown valves
\* the kinds of component of a drawing with alarms and shutdown devices
InterlockKinds ==
    { << <<"L", "A", "H", "-", "1", "0", "2">>, instrument >>,
      << <<"L", "A", "H", "T", "-", "1", "0", "2">>, instrument >>,
      << <<"S", "D", "V", "-", "1", "0", "1">>, valve >>,
      << <<"X", "V", "-", "1", "0", "1">>, valve >>,
      << <<"T", "R", "I", "P", "-", "0", "0", "1">>, instrument >>,
      << <<"F", "I", "C", "-", "1", "0", "1">>, instrument >>,
      << <<"F", "T", "-", "1", "0", "1">>, instrument >>,
      << <<"F", "C", "V", "-", "1", "0", "1">>, instrument >>,
      << <<"F", "C", "V", "-", "1", "0", "1">>, valve >> }

InterlockDicts ==
    UNION {{[i \in 1 .. n |-> Component(IdOf(i), kinds[i][1], kinds[i][2])] :
               kinds \in [1 .. n -> InterlockKinds]} : n \in 0 .. MaxComponents}

\* signal lines around the first component, and one whose end did not resolve
InterlockPipes(comps) ==
    LET ends == {comps[i].id : i \in 1 .. Len(comps)} \cup {None}
        usable == {p \in PipeCatalogue :
                      /\ p.from_comp \in ends /\ p.to_comp \in ends
                      /\ p.line_type = "instrumentation"
                      /\ IdOf(1) \in {p.from_comp, p.to_comp}
                      /\ p.from_comp # None}
    IN  UNION {[1 .. n -> usable] : n \in 0 .. MaxPipes}

InterlockInit ==
    /\ NoRouting
    /\ NoParseCall
    /\ components \in InterlockDicts
    /\ pipes \in InterlockPipes(components)
    /\ control_loops = <<>>
    /\ interlocks = <<>>
    /\ errors = <<>>
    /\ warnings = <<>>
    /\ apc = "drawn"
    /\ find_id = None
    /\ find_connected = <<>>
    /\ results = <<>>

InterlockSpec == InterlockInit /\ [][DrawingNext]_vars

\* ------------------------------------------------ drawings with line labels
vessel == <<"v", "e", "s", "s", "e", "l">>

\* the kinds of component of a drawing whose tags and lines are validated
LabelledKinds ==
    { << <<"P", "T", "-", "1", "0", "1">>, instrument >>,
      << <<"P", "T", "1", "0", "1">>, instrument >>,
      << <<"P", "T", "-", "1", "0", "1", "A">>, instrument >>,
      << <<"V", "-", "1">>, vessel >> }

LabelledDicts ==
    UNION {{[i \in 1 .. n |-> Component(IdOf(i), kinds[i][1], kinds[i][2])] :
               kinds \in [1 .. n -> LabelledKinds]} : n \in 2 .. MaxComponents}

\* pipe.label: size, service and number of the line, or no label
Labels ==
    { <<"2", "\"", "-", "P", "W", "-", "1", "0", "1">>,
      <<"3", "\"", "-", "P", "W", "-", "1", "0", "1">>,
      <<"3", "-", "P", "W", "-", "1", "0", "1">>,
      <<"2", "\"", "-", "C", "W", "-", "1", "0", "1">>,
      <<>> }

\* process lines from the first component to the second
LabelledPipes ==
    UNION {{[i \in 1 .. n |-> [Pipe(IdOf(1), IdOf(2), "process") EXCEPT !.label = labels[i]]] :
               labels \in [1 .. n -> Labels]} : n \in 0 .. MaxLabelledPipes}

LabelledInit ==
    /\ NoRouting
    /\ NoParseCall
    /\ components \in LabelledDicts
    /\ pipes \in LabelledPipes
    /\ control_loops = <<>>
    /\ interlocks = <<>>
    /\ errors = <<>>
    /\ warnings = <<>>
    /\ apc = "drawn"
    /\ find_id = None
    /\ find_connected = <<>>
    /\ results = <<>>

LabelledSpec == LabelledInit /\ [][DrawingNext]_vars

\* ------------------------------------------------- the app routes pipes
\* ProfessionalPnidComponent(row) with its geometry, as doubled world values
PlacedComponent(id, x, y, w, h) ==
    [id |-> id, x |-> x, y |-> y, width |-> w, height |-> h, rotation |-> 0,
     component_type |-> valve]

\* _define_professional_ports of a component whose type contains 'valve':
\* dx and dy of each port
define_professional_ports(comp) ==
    [inlet |-> <<0, comp.height \div 2>>,
     outlet |-> <<comp.width, comp.height \div 2>>,
     stem |-> <<comp.width \div 2, 0>>,
     body_drain |-> <<comp.width \div 2, comp.height>>,
     default |-> <<0, comp.height \div 2>>]

\* a plausible slip: the centre of the component whatever the port
get_centre_coords(comp, port_name) ==
    <<comp.x + comp.width \div 2, comp.y + comp.height \div 2>>

\* get_port_coords of an unrotated component: the named port, or the default
\* port for a name the component has not
get_port_coords(comp, port_name) ==
    LET ports == define_professional_ports(comp)
        port == IF port_name \in DOMAIN ports THEN ports[port_name] ELSE ports["default"]
    IN  <<comp.x + port[1], comp.y + port[2]>>

\* From Port / To Port of a pipe row; "default" also when the row has none
PortNames == {"inlet", "outlet", "stem", "body_drain", "default", "suction"}

\* where the app places components: inside the drawing, one cell wide and high
PlacedXs == {0, Half * grid_size, Half * (grid_size * (GridCols - 1))}
PlacedYs == {0, Half * (grid_size * (GridRows - 1))}
PlacedSize == Half * grid_size

PlacedDicts ==
    UNION {{[i \in 1 .. n |-> PlacedComponent(IdOf(i), xs[i], ys[i], PlacedSize, PlacedSize)] :
               xs \in [1 .. n -> PlacedXs], ys \in [1 .. n -> PlacedYs]} :
           n \in 1 .. MaxPlaced}

\* the app builds its components, then the router with every component as
\* an obstacle
SetupRouter ==
    /\ pc = "idle"
    /\ components = <<>>
    /\ obstacles = {}
    /\ pipes_grid = {}
    /\ \E comps \in PlacedDicts :
          /\ components' = comps
          /\ obstacles' = UNION {ObstacleCells(comps[i].x, comps[i].y, comps[i].width,
                                               comps[i].height, Half * AppPadding) :
                                    i \in 1 .. Len(comps)}
    /\ UNCHANGED <<pipes_grid, pc, start, end, prefer_straight, open_set, closed_set,
                   raw_path, path, via, previous, last_call, pipes, control_loops,
                   interlocks, errors, warnings, apc, find_id, find_connected, results,
                   parsing>>

\* ProfessionalPnidPipe(row, component_map, router) with smart routing and no
\* polyline in the row: find_path between the two ports, up to the first
\* test of the while loop
RoutePipe ==
    /\ pc = "idle"
    /\ \E i, j \in 1 .. Len(components), from_port \in PortNames, to_port \in PortNames :
          Enter(get_port_coords(components[i], from_port),
                get_port_coords(components[j], to_port), TRUE)
    /\ previous' = <<>>

AppNext ==
    \/ Next
    \/ SetupRouter
    \/ RoutePipe

AppSpec == Init /\ [][AppNext]_vars

\* ------------------------------------------- _parse_instrument_function
\* One call of the static method on a tag.
ParseInit ==
    /\ obstacles = {}
    /\ pipes_grid = {}
    /\ pc = "idle"
    /\ start = NoPoint
    /\ end = NoPoint
    /\ prefer_straight = TRUE
    /\ open_set = <<>>
    /\ closed_set = {}
    /\ raw_path = <<>>
    /\ path = <<>>
    /\ via = "none"
    /\ previous = <<>>
    /\ last_call = NoCall
    /\ NoDrawing
    /\ parse_tag \in TagInputs
    /\ parse_result = <<>>
    /\ parse_pc = "idle"

ParseInstrumentFunction ==
    /\ parse_pc = "idle"
    /\ parse_result' = parse_instrument_function(parse_tag)
    /\ parse_pc' = "returned"
    /\ UNCHANGED <<parse_tag, routing, drawing>>

ParseNext == ParseInstrumentFunction

ParseSpec == ParseInit /\ [][ParseNext]_vars

\* ------------------------------------------------------ claims: vocabulary
\* Stated on the grid itself (Cells, obstacles), not through the operators of
\* the search.
Returned == pc = "returned"

FreeCell(c) == c \in Cells /\ c \notin obstacles

Neighbours4(c) == {<<c[1], c[2] + 1>>, <<c[1] + 1, c[2]>>, <<c[1], c[2] - 1>>, <<c[1] - 1, c[2]>>}

\* none of the 4 neighbours of the cell is free
Enclosed(c) == \A n \in Neighbours4(c) : ~FreeCell(n)

\* [start, (mid_x, start_y), (mid_x, end_y), end] with mid_x = (start_x + end_x) / 2
IsFallbackShape(p) ==
    /\ Len(p) = 4
    /\ p[1] = start
    /\ p[4] = end
    /\ p[2][2] = start[2]
    /\ p[3][2] = end[2]
    /\ p[2][1] = p[3][1]
    /\ Half * p[2][1] = start[1] + end[1]

\* ------------------------------------------------------------------ C1
\* C1: every path find_path returns, found by the search or the fallback,
\* begins with exactly start and ends with exactly end.
C1_ExactEndpoints == Returned => path[1] = start /\ path[Len(path)] = end

\* ------------------------------------------------------------------ C2
\* C2: every path find_path returns has at least 2 points.
C2_AtLeastTwoPoints == Returned => Len(path) >= 2

\* ------------------------------------------------------------------ C3
\* C3 as stated: if no neighbour of the end cell is free, find_path returns
\* the 4-point fallback path, whatever the start.
C3_EnclosedEndGivesFallback ==
    Returned /\ Enclosed(EndGrid) => via = "fallback" /\ IsFallbackShape(path)

\* the start cell is the end cell, or is next to an end cell that can be entered
StartAtEnclosedEnd ==
    \/ StartGrid = EndGrid
    \/ StartGrid \in Neighbours4(EndGrid) /\ FreeCell(EndGrid)

\* C3 amended: if no neighbour of the end cell is free, and the start cell is
\* neither the end cell nor a neighbour of a free end cell, find_path returns
\* the 4-point fallback path.
C3_EnclosedEndGivesFallbackFromOutside ==
    Returned /\ Enclosed(EndGrid) /\ ~StartAtEnclosedEnd
        => via = "fallback" /\ IsFallbackShape(path)

\* a free end cell walled in by obstacles, a start elsewhere, the fallback returned
C3_Witness ==
    /\ Returned
    /\ Enclosed(EndGrid)
    /\ FreeCell(EndGrid)
    /\ \E n \in Neighbours4(EndGrid) : n \in obstacles
    /\ ~StartAtEnclosedEnd
    /\ via = "fallback"

\* ------------------------------------------------------------------ C4
\* the cells of the reconstructed path, start cell first
RawCells == [i \in 1 .. Len(raw_path) |-> <<ToGrid(raw_path[i][1]), ToGrid(raw_path[i][2])>>]

\* the cells reachable from the cells of S by 4-directional moves into free cells
RECURSIVE ReachableFrom(_)
ReachableFrom(S) ==
    LET more == S \cup {n \in UNION {Neighbours4(c) : c \in S} : FreeCell(n)}
    IN  IF more = S THEN S ELSE ReachableFrom(more)

EndReachable == EndGrid \in ReachableFrom({StartGrid})

\* C4: the fallback path is returned exactly when the end cell cannot be
\* reached from the start cell by 4-directional moves into in-bounds,
\* non-obstacle cells; pipe-occupied cells do not count against a route.
C4_FallbackIffUnreachable ==
    Returned => (via = "fallback" <=> ~EndReachable)

\* a search-found path that runs over a pipe-occupied cell, with obstacles present
C4_Witness ==
    /\ Returned
    /\ via = "search"
    /\ obstacles # {}
    /\ \E i \in 2 .. Len(RawCells) : RawCells[i] \in pipes_grid

\* ------------------------------------------------------------------ C5
\* C5: every cell of a search-found path other than the start cell is inside
\* the grid and is not an obstacle.
C5_PathCellsFree ==
    Returned /\ via = "search" => \A i \in 2 .. Len(RawCells) : FreeCell(RawCells[i])

\* a search-found path of more steps than the Manhattan distance: it went
\* round an obstacle
C5_Witness ==
    /\ Returned
    /\ via = "search"
    /\ obstacles # {}
    /\ Len(RawCells) - 1 > Abs(StartGrid[1] - EndGrid[1]) + Abs(StartGrid[2] - EndGrid[2])

\* ------------------------------------------------------------------ C6
\* C6: with no obstacle and no pipe-occupied cell, the search finds a path,
\* and its number of unit steps is the Manhattan distance between the start
\* cell and the end cell.
C6_ManhattanOnEmptyGrid ==
    Returned /\ obstacles = {} /\ pipes_grid = {}
        => /\ via = "search"
           /\ Len(RawCells) - 1 = Abs(StartGrid[1] - EndGrid[1]) + Abs(StartGrid[2] - EndGrid[2])

\* an empty grid, start and end in different rows and columns
C6_Witness ==
    /\ Returned
    /\ obstacles = {}
    /\ pipes_grid = {}
    /\ StartGrid[1] # EndGrid[1]
    /\ StartGrid[2] # EndGrid[2]
    /\ Len(RawCells) >= 4

\* ------------------------------------------------------------------ C7
\* the cost of a cell path as the claim counts it, doubled: 1.0 per step into
\* a free cell, 1.5 per step into a pipe-occupied cell, 0.5 per change of
\* direction between consecutive steps
StepOf(cs, i) == <<cs[i + 1][1] - cs[i][1], cs[i + 1][2] - cs[i][2]>>

CostOf(cs) ==
    LET enter(i) == IF cs[i] \in pipes_grid THEN 3 ELSE 2
        turn(i) == IF StepOf(cs, i - 1) # StepOf(cs, i) THEN 1 ELSE 0
        RECURSIVE SumEnter(_), SumTurn(_)
        SumEnter(i) == IF i < 2 THEN 0 ELSE enter(i) + SumEnter(i - 1)
        SumTurn(i) == IF i < 2 THEN 0 ELSE turn(i) + SumTurn(i - 1)
    IN  SumEnter(Len(cs)) + SumTurn(Len(cs) - 1)

\* more than any path costs
Unreached == 8 * Cardinality(Cells) + 8

Headings == {<<0, 1>>, <<1, 0>>, <<0, -1>>, <<-1, 0>>}

\* the least cost of arriving in each free cell with each heading, by
\* relaxation to a fixed point
RECURSIVE Relax(_)
Relax(d) ==
    LET enter(c) == IF c \in pipes_grid THEN 3 ELSE 2
        from(c, hd) == <<c[1] - hd[1], c[2] - hd[2]>>
        first(c, hd) == IF from(c, hd) = StartGrid THEN enter(c) ELSE Unreached
        via1(c, hd, h2) ==
            IF from(c, hd) \in Cells /\ d[<<from(c, hd), h2>>] < Unreached
            THEN d[<<from(c, hd), h2>>] + enter(c) + (IF h2 = hd THEN 0 ELSE 1)
            ELSE Unreached
        best(S) == CHOOSE v \in S : \A u \in S : v <= u
        new == [k \in Cells \X Headings |->
                  IF FreeCell(k[1])
                  THEN best({d[k], first(k[1], k[2])} \cup {via1(k[1], k[2], h2) : h2 \in Headings})
                  ELSE Unreached]
    IN  IF new = d THEN d ELSE Relax(new)

\* the least cost of a path of free cells from the start cell to the end cell
MinCost ==
    LET d == Relax([k \in Cells \X Headings |-> Unreached])
    IN  CHOOSE v \in {d[<<EndGrid, hd>>] : hd \in Headings} :
            \A hd \in Headings : v <= d[<<EndGrid, hd>>]

\* C7: with prefer_straight, a search-found path has the least total cost of
\* all 4-connected paths of in-bounds, obstacle-free cells from the start cell
\* to the end cell.
C7_LeastCostPath ==
    Returned /\ via = "search" /\ prefer_straight /\ StartGrid # EndGrid
        => CostOf(RawCells) = MinCost

\* ------------------------------------------------------------------ C8
\* C8: every call of find_path returns: the while loop ends, by popping the
\* goal or by emptying the open set.
C8_FindPathTerminates == (pc = "search") ~> (pc = "returned")

\* the search is running with a node in the open set whose cell is already
\* closed, and with two nodes of one cell in the open set
C8_Witness ==
    /\ pc = "search"
    /\ \E i \in 1 .. Len(open_set) : <<open_set[i].x, open_set[i].y>> \in closed_set
    /\ \E i, j \in 1 .. Len(open_set) :
          i # j /\ open_set[i].x = open_set[j].x /\ open_set[i].y = open_set[j].y

Turns(p) == {p[i] : i \in {k \in 2 .. Len(p) - 1 : StepOf(p, k - 1) # StepOf(p, k)}}

\* C10: _smooth_path applied to the cell path of the search keeps every
\* waypoint at which the direction changes, and any two consecutive points of
\* its output share their x or their y.
C10_SmoothKeepsTurns ==
    Returned /\ via = "search" =>
        LET smoothed == smooth_path(raw_path)
        IN  /\ \A t \in Turns(raw_path) : \E i \in 1 .. Len(smoothed) : smoothed[i] = t
            /\ \A i \in 1 .. Len(smoothed) - 1 :
                  \/ smoothed[i][1] = smoothed[i + 1][1]
                  \/ smoothed[i][2] = smoothed[i + 1][2]

\* a cell path with a turn, from which smoothing removed a waypoint
C10_Witness ==
    /\ Returned
    /\ via = "search"
    /\ Turns(raw_path) # {}
    /\ Len(smooth_path(raw_path)) < Len(raw_path)

\* ------------------------------------------------------------------- C11
\* the cell covers [grid_size * gx, grid_size * (gx + 1)) in each axis, the
\* padded rectangle [x - padding, x + w + padding] x [y - padding, y + h + padding]
\* is closed: they have a point in common
MeetsRect(c, r) ==
    LET lo_x == r[1] - r[5]
        hi_x == r[1] + r[3] + r[5]
        lo_y == r[2] - r[5]
        hi_y == r[2] + r[4] + r[5]
    IN  /\ lo_x < Half * (grid_size * (c[1] + 1)) /\ hi_x >= Half * (grid_size * c[1])
        /\ lo_y < Half * (grid_size * (c[2] + 1)) /\ hi_y >= Half * (grid_size * c[2])

\* C11: a call of add_component_obstacle leaves every grid cell that meets the
\* padded rectangle in the obstacle set, and adds no cell that lies outside
\* the padded rectangle, wherever the rectangle is.
C11_ObstacleCellsMeetRectangle ==
    [][last_call'.op = "add_component_obstacle" =>
          /\ \A c \in Cells : MeetsRect(c, last_call'.rect) => c \in obstacles'
          /\ \A c \in obstacles' \ obstacles : MeetsRect(c, last_call'.rect)]_vars

\* ------------------------------------------------------------------- C12
\* C12: no operation of the router (add_component_obstacle, add_pipe_path,
\* find_path and each of its steps) removes a cell from the obstacle set or
\* from the pipe-occupancy set.
C12_SetsNeverLoseCells ==
    [][obstacles \subseteq obstacles' /\ pipes_grid \subseteq pipes_grid']_vars

\* a find_path call has returned on a router that holds the most obstacle and
\* pipe cells the bounds allow: every kind of call has been made
C12_Witness ==
    /\ Returned
    /\ Cardinality(obstacles) = MaxObstacleCells
    /\ Cardinality(pipes_grid) = MaxPipeCells

\* ------------------------------------------------------------------- C13
\* a step of a find_path call: the call is entered, or is inside its loop
FindPathStep == pc' = "search" \/ pc = "search"

\* C13: find_path, from its entry to its return, leaves the obstacle set and
\* the pipe-occupancy set as they are: the cells of the returned path are not
\* marked pipe-occupied.
C13_FindPathLeavesRouterUnchanged ==
    [][FindPathStep => obstacles' = obstacles /\ pipes_grid' = pipes_grid]_vars

\* a searched path of several cells has been returned and none of its cells
\* is pipe-occupied
C13_Witness ==
    /\ Returned
    /\ via = "search"
    /\ Len(raw_path) >= 3
    /\ \A i \in 1 .. Len(raw_path) :
          <<ToGrid(raw_path[i][1]), ToGrid(raw_path[i][2])>> \notin pipes_grid

\* ------------------------------------------------------------------- C14
\* the cell of a point given in world coordinates
CellOf(pt) == <<ToGrid(pt[1]), ToGrid(pt[2])>>

\* the cells within half a cell of the straight line from cell a to cell b,
\* measured along the minor axis, inside the box spanned by a and b
NearLine(a, b) ==
    LET dx == b[1] - a[1]
        dy == b[2] - a[2]
        major == Max(Abs(dx), Abs(dy))
    IN  {c \in (Min(a[1], b[1]) .. Max(a[1], b[1])) \X (Min(a[2], b[2]) .. Max(a[2], b[2])) :
            2 * Abs((c[1] - a[1]) * dy - (c[2] - a[2]) * dx) <= major}

\* the position of the cell along the major axis of the line from a to b
Along(c, a, b) == IF Abs(b[1] - a[1]) >= Abs(b[2] - a[2]) THEN c[1] ELSE c[2]

\* a rasterized line from a to b is in the set: both end cells, and a cell
\* near the line at every position along the major axis
HoldsLine(set, a, b) ==
    /\ a \in set
    /\ b \in set
    /\ \A m \in Min(Along(a, a, b), Along(b, a, b)) .. Max(Along(a, a, b), Along(b, a, b)) :
          \E c \in NearLine(a, b) \cap set : Along(c, a, b) = m

\* the search may step from n into c, at the cost of a pipe-occupied cell
EnterableAtPipeCost(c, n) ==
    <<c[1], c[2], PipeCost>> \in Range(get_neighbors(GridNode(n[1], n[2], 0, 0, <<>>)))

\* every pipe-occupied grid cell that is not an obstacle can be entered from
\* each neighbouring grid cell
PipeCellsEnterable ==
    \A c \in (pipes_grid \cap Cells) \ obstacles :
        \A n \in Neighbours4(c) \cap Cells : EnterableAtPipeCost(c, n)

\* C14: a call of add_pipe_path(points) marks, for each pair of consecutive
\* points, a rasterized line between their two cells (end cells included) and
\* no cell off these lines, marks nothing when there are fewer than 2 points,
\* leaves the obstacle set unchanged, and every pipe-occupied grid cell that
\* is not an obstacle can still be entered by the search from each
\* neighbouring grid cell.
C14_PipePathMarksLineCells ==
    /\ []PipeCellsEnterable
    /\ [][last_call'.op = "add_pipe_path" =>
          LET pts == last_call'.points
              segs == {<<CellOf(pts[i]), CellOf(pts[i + 1])>> : i \in 1 .. Len(pts) - 1}
          IN  /\ \A sg \in segs : HoldsLine(pipes_grid', sg[1], sg[2])
              /\ pipes_grid' \ pipes_grid \subseteq UNION {NearLine(sg[1], sg[2]) : sg \in segs}
              /\ pipes_grid \subseteq pipes_grid'
              /\ Len(pts) < 2 => pipes_grid' = pipes_grid
              /\ obstacles' = obstacles]_vars

\* a path of three points with a slanted segment has been marked on a router
\* that holds obstacles, and a marked cell is not an obstacle
C14_Witness ==
    /\ last_call.op = "add_pipe_path"
    /\ Len(last_call.points) = 3
    /\ LET a == CellOf(last_call.points[1])
           b == CellOf(last_call.points[2])
       IN  Abs(b[1] - a[1]) = 2 /\ Abs(b[2] - a[2]) = 1
    /\ obstacles # {}
    /\ \E c \in pipes_grid \cap Cells : c \notin obstacles

\* ------------------------------------------------------------------- C16
Parsed == parse_pc = "returned"

\* the tag is uppercase letters, then an optional hyphen, then digits, and
\* nothing else: k letters (at least one) and, after the hyphen if there is
\* one, at least one digit
LettersOf(tag) == RunEnd(tag, 1, Upper) - 1
HasGrammar(tag) ==
    \E k \in 1 .. Len(tag), y \in {0, 1} :
        /\ k + y < Len(tag)
        /\ \A i \in 1 .. k : tag[i] \in Upper
        /\ y = 1 => tag[k + 1] = "-"
        /\ \A i \in k + y + 1 .. Len(tag) : tag[i] \in Digit

\* the letters after the first one
ModifierLetters(tag) == {tag[i] : i \in 2 .. LettersOf(tag)}

FIC_101 == <<"F", "I", "C", "-", "1", "0", "1">>
LAH102 == <<"L", "A", "H", "1", "0", "2">>
PT_001 == <<"P", "T", "-", "0", "0", "1">>

\* C16: FIC-101 parses to variable F, modifiers IC, number 101, controller and
\* indicator; LAH102 to L, AH, 102, alarm; PT-001 to P, T, 001, transmitter;
\* and whenever a tag parses, each role flag is set exactly when its letter
\* (C, T, V, I; A, H or L for the alarm) is among the letters after the first.
C16_FlagsFromModifiers ==
    Parsed =>
        /\ parse_tag = FIC_101 =>
              /\ parse_result # <<>>
              /\ parse_result[1].variable = "F"
              /\ parse_result[1].modifiers = <<"I", "C">>
              /\ parse_result[1].number = <<"1", "0", "1">>
              /\ parse_result[1].is_controller
              /\ parse_result[1].is_indicator
        /\ parse_tag = LAH102 =>
              /\ parse_result # <<>>
              /\ parse_result[1].variable = "L"
              /\ parse_result[1].modifiers = <<"A", "H">>
              /\ parse_result[1].number = <<"1", "0", "2">>
              /\ parse_result[1].is_alarm
        /\ parse_tag = PT_001 =>
              /\ parse_result # <<>>
              /\ parse_result[1].variable = "P"
              /\ parse_result[1].modifiers = <<"T">>
              /\ parse_result[1].number = <<"0", "0", "1">>
              /\ parse_result[1].is_transmitter
        /\ parse_result # <<>> =>
              /\ parse_result[1].is_controller <=> "C" \in ModifierLetters(parse_tag)
              /\ parse_result[1].is_transmitter <=> "T" \in ModifierLetters(parse_tag)
              /\ parse_result[1].is_valve <=> "V" \in ModifierLetters(parse_tag)
              /\ parse_result[1].is_indicator <=> "I" \in ModifierLetters(parse_tag)
              /\ parse_result[1].is_alarm <=> ModifierLetters(parse_tag) \cap {"A", "H", "L"} # {}

\* a tag has parsed whose first letter is C and whose other letters hold no
\* C: it is not a controller
C16_Witness ==
    /\ Parsed
    /\ parse_result # <<>>
    /\ parse_tag[1] = "C"
    /\ "T" \in ModifierLetters(parse_tag)
    /\ ~parse_result[1].is_controller

\* ------------------------------------------------------------------- C17
\* C17: a tag that is not uppercase letters, an optional hyphen and digits
\* parses to no tag info.
C17_OffGrammarParsesToNone ==
    Parsed /\ ~HasGrammar(parse_tag) => parse_result = <<>>

\* ------------------------------------------------------------------- C15
\* the latest constructor or validate_all call raised
ConstructionRaised == apc = "raised" /\ find_id = None

\* C15: on every drawing, also one with an instrumentation pipe whose one end
\* is unresolved and whose other end is a controller or an alarm, constructing
\* the analyzer and the validator and calling validate_all never raises.
C15_ConstructionNeverRaises == ~ConstructionRaised

\* ------------------------------------------------------------------- C18
FT_101 == <<"F", "T", "-", "1", "0", "1">>
FCV_101 == <<"F", "C", "V", "-", "1", "0", "1">>
FC_101 == <<"F", "C", "-", "1", "0", "1">>

\* an instrumentation pipe joins the components with ids a and b
SignalPipe(a, b) ==
    \E i \in 1 .. Len(pipes) :
        /\ pipes[i].line_type = "instrumentation"
        /\ {pipes[i].from_comp, pipes[i].to_comp} = {a, b}

\* the drawing is the controller FIC-101 (id c), the transmitter FT-101
\* (id t) and the valve FCV-101 (id v)
LoopComponents(c, t, v) ==
    /\ Len(components) = 3
    /\ {c, t, v} = {components[i].id : i \in 1 .. 3}
    /\ \A i \in 1 .. 3 :
          /\ components[i].id = c => components[i].tag = FIC_101
          /\ components[i].id = t =>
                components[i].tag = FT_101 /\ components[i].component_type = instrument
          /\ components[i].id = v =>
                components[i].tag = FCV_101 /\ components[i].component_type = valve

\* C18: with FIC-101, FT-101 and the valve FCV-101, the transmitter and the
\* valve each joined to the controller by an instrumentation pipe, the
\* analyzer produces exactly one loop, FC-101 of type Flow, made of the three;
\* with only the transmitter's pipe it produces no loop.
C18_OneFlowLoop ==
    \A c, t, v \in {IdOf(i) : i \in 1 .. MaxComponents} :
        LoopComponents(c, t, v) /\ apc # "drawn" =>
            /\ Len(pipes) = 2 /\ SignalPipe(t, c) /\ SignalPipe(v, c) =>
                  /\ ~ConstructionRaised
                  /\ apc \in {"analyzed", "connected"} =>
                        /\ Len(control_loops) = 1
                        /\ control_loops[1].loop_id = FC_101
                        /\ control_loops[1].loop_type = "Flow Control"
                        /\ control_loops[1].primary_element = t
                        /\ control_loops[1].controller = c
                        /\ control_loops[1].final_element = v
            /\ Len(pipes) = 1 /\ SignalPipe(t, c) =>
                  /\ ~ConstructionRaised
                  /\ control_loops = <<>>

\* the analyzer has run on the three components with both pipes and holds
\* one loop
C18_Witness ==
    /\ apc = "analyzed"
    /\ Len(pipes) = 2
    /\ \E c, t, v \in {IdOf(i) : i \in 1 .. MaxComponents} :
          LoopComponents(c, t, v) /\ SignalPipe(t, c) /\ SignalPipe(v, c)
    /\ Len(control_loops) = 1

\* ------------------------------------------------------------------- C19
\* the components of the drawing joined to x by one instrumentation pipe
SignalNeighbours(x) ==
    {components[i] : i \in {j \in 1 .. Len(components) : SignalPipe(x, components[j].id)}}

\* the role the analyzer gives a component: the first of controller,
\* transmitter, valve that its tag letters name
IsController(comp) == comp.tag_info # <<>> /\ comp.tag_info[1].is_controller

IsTransmitter(comp) ==
    /\ comp.tag_info # <<>>
    /\ comp.tag_info[1].is_transmitter
    /\ ~comp.tag_info[1].is_controller

IsFinalElement(comp) ==
    \/ /\ comp.tag_info # <<>>
       /\ comp.tag_info[1].is_valve
       /\ ~comp.tag_info[1].is_controller
       /\ ~comp.tag_info[1].is_transmitter
    \/ \E i \in 1 .. Len(comp.component_type) - 4 :
          SubSeq(comp.component_type, i, i + 4) = valve

\* the controller has a transmitter of its variable and number and a final
\* element among its neighbours
LoopComplete(ctrl) ==
    /\ \E t \in SignalNeighbours(ctrl.id) :
          /\ IsTransmitter(t)
          /\ t.tag_info[1].variable = ctrl.tag_info[1].variable
          /\ t.tag_info[1].number = ctrl.tag_info[1].number
    /\ \E f \in SignalNeighbours(ctrl.id) : IsFinalElement(f)

\* the loops held are one for each complete controller and no other
LoopsAreTheCompleteOnes ==
    /\ \A i \in 1 .. Len(components) :
          IsController(components[i]) =>
              (LoopComplete(components[i]) <=>
                  \E k \in 1 .. Len(control_loops) :
                      control_loops[k].controller = components[i].id)
    /\ \A k \in 1 .. Len(control_loops) :
          /\ \E i \in 1 .. Len(components) :
                /\ IsController(components[i])
                /\ control_loops[k].controller = components[i].id
          /\ \A m \in 1 .. Len(control_loops) :
                control_loops[m].controller = control_loops[k].controller => m = k

\* C19: once the analyzer was constructed on a drawing, a loop is held for a
\* controller exactly when its one-hop signal neighbours hold a transmitter
\* of the controller's variable and number and a final element (a valve by
\* tag or a component whose type contains "valve"); a controller with only
\* one of the two has no loop.
C19_LoopIffTransmitterAndFinalElement ==
    apc \in {"analyzed", "connected", "raised"} => LoopsAreTheCompleteOnes

\* ------------------------------------------------------------------- C20
\* C20: _find_connected_instruments(X) returns exactly the ids joined to X
\* by one instrumentation pipe, in either direction.
C20_ConnectedAreSignalNeighbours ==
    find_id # None =>
        /\ apc = "connected"
        /\ {find_connected[i] : i \in 1 .. Len(find_connected)} =
               {y.id : y \in SignalNeighbours(find_id)}

\* ------------------------------------------------------------------- C21
\* the tag holds sub
Holds(tag, sub) ==
    \E i \in 0 .. Len(tag) - Len(sub) : \A k \in 1 .. Len(sub) : tag[i + k] = sub[k]

\* the tag holds "trip" in any case
HoldsTrip(tag) ==
    \E i \in 0 .. Len(tag) - 4 :
        /\ tag[i + 1] \in {"t", "T"}
        /\ tag[i + 2] \in {"r", "R"}
        /\ tag[i + 3] \in {"i", "I"}
        /\ tag[i + 4] \in {"p", "P"}

ShutdownTag(tag) ==
    Holds(tag, <<"S", "D", "V">>) \/ Holds(tag, <<"X", "V">>) \/ HoldsTrip(tag)

\* the parsed tag of the component has the alarm flag
AlarmFlagged(comp) == comp.tag_info # <<>> /\ comp.tag_info[1].is_alarm

\* the interlock alarm -> action is recorded
Interlocked(alarm, action) ==
    \E k \in 1 .. Len(interlocks) :
        /\ interlocks[k].alarm = alarm
        /\ interlocks[k].action = action
        /\ interlocks[k].type = "Safety Interlock"

\* C21: once the analyzer was constructed on a drawing, every one-hop signal
\* neighbour of an alarm-flagged instrument whose tag holds SDV, XV or trip
\* is recorded as a Safety Interlock of that instrument.
C21_AlarmNeighboursInterlocked ==
    apc \in {"analyzed", "connected", "raised"} =>
        \A i \in 1 .. Len(components) :
            AlarmFlagged(components[i]) =>
                \A n \in SignalNeighbours(components[i].id) :
                    ShutdownTag(n.tag) => Interlocked(components[i].id, n.id)

\* ------------------------------------------------------------------- C22
\* prefix, number and suffix of a tag: the tag without its hyphen
QualifiedTag(tag) == SelectSeq(tag, LAMBDA ch : ch # "-")

\* the component at position i is an instrument whose qualified tag is that
\* of an instrument at an earlier position
SeenEarlier(i) ==
    /\ components[i].is_instrument
    /\ \E j \in 1 .. i - 1 :
          /\ components[j].is_instrument
          /\ QualifiedTag(components[j].tag) = QualifiedTag(components[i].tag)

\* the errors of the list with the given text
ErrorsSaying(text) == SelectSeq(errors, LAMBDA m : m[1] = text)

\* the first validate_all call of a validator has returned
ValidatedOnce == apc = "validated" /\ Len(results) = 1

\* C22: after one validation the "Duplicate instrument tag" errors are, in
\* the order of the components, one for each instrument whose qualified tag
\* was seen on an earlier instrument, and none for a first occurrence.
C22_OneErrorPerRepeatedTag ==
    ValidatedOnce =>
        LET repeated == SelectSeq([i \in 1 .. Len(components) |-> i], SeenEarlier)
        IN  ErrorsSaying("Duplicate instrument tag") =
                [k \in 1 .. Len(repeated) |->
                    <<"Duplicate instrument tag", components[repeated[k]].tag>>]

\* three instruments share one qualified tag, written with and without the
\* hyphen: two errors
C22_Witness ==
    /\ ValidatedOnce
    /\ Len(components) = 3
    /\ \A i \in 1 .. 3 : QualifiedTag(components[i].tag) = <<"P", "T", "1", "0", "1">>
    /\ \E i \in 1 .. 3 : Len(components[i].tag) = 5
    /\ Len(ErrorsSaying("Duplicate instrument tag")) = 2

\* ------------------------------------------------------------------- C23
\* validate_all is called on a validator that has validated before
ValidatesAgain == apc = "validated" /\ Len(results') = Len(results) + 1

\* C23: a second validate_all on unchanged components and pipes leaves the
\* error list and the warning list as the first call produced them.
C23_RevalidationGivesSameLists ==
    [][ValidatesAgain => errors' = errors /\ warnings' = warnings]_vars

\* ------------------------------------------------------------------- C26
\* k copies of a list, one after the other
RECURSIVE Copies(_, _)
Copies(list, k) == IF k = 0 THEN <<>> ELSE list \o Copies(list, k - 1)

\* the list is k copies of its first k-th
IsCopies(list, k) == list = Copies(SubSeq(list, 1, Len(list) \div k), k)

\* C26: after k validate_all calls on one validator the two lists hold k
\* copies of the messages of one call, and every result dict returned so far
\* shows these same grown lists.
C26_ListsAccumulate ==
    apc = "validated" =>
        /\ IsCopies(errors, Len(results))
        /\ IsCopies(warnings, Len(results))
        /\ \A k \in 1 .. Len(results) :
              /\ ListOf(results[k].errors) = errors
              /\ ListOf(results[k].warnings) = warnings

\* a validator has validated twice a drawing that has errors and warnings
C26_Witness ==
    /\ apc = "validated"
    /\ Len(results) = 2
    /\ Len(errors) >= 2
    /\ Len(warnings) >= 2
    /\ ListOf(results[1].errors) = errors

\* ------------------------------------------------------------------- C24
\* a label of the form size, optional inch mark, hyphen, service-number: its
\* size is the digits it starts with, its key what follows the first hyphen
FirstHyphen(label) ==
    CHOOSE i \in 1 .. Len(label) : label[i] = "-" /\ \A j \in 1 .. i - 1 : label[j] # "-"

LabelSize(label) ==
    SubSeq(label, 1, CHOOSE i \in 0 .. Len(label) :
                         /\ \A j \in 1 .. i : label[j] \in Digit
                         /\ label[i + 1] \notin Digit)

LabelKey(label) == SubSeq(label, FirstHyphen(label) + 1, Len(label))

\* the first labelled pipe with the key of pipe i
FirstWithKey(i) ==
    CHOOSE j \in 1 .. i :
        /\ pipes[j].label # <<>>
        /\ LabelKey(pipes[j].label) = LabelKey(pipes[i].label)
        /\ \A h \in 1 .. j - 1 :
              pipes[h].label = <<>> \/ LabelKey(pipes[h].label) # LabelKey(pipes[i].label)

\* the size of pipe i differs from the size of the first pipe with its key
DiffersFromFirst(i) ==
    /\ pipes[i].label # <<>>
    /\ LabelSize(pipes[i].label) # LabelSize(pipes[FirstWithKey(i)].label)

\* the warnings of the list with the given text
WarningsSaying(text) == SelectSeq(warnings, LAMBDA m : m[1] = text)

\* C24: after one validation there is one "Inconsistent line sizing" warning,
\* in pipe order, for each pipe whose size differs from the size of the first
\* pipe seen with its service-number key, and for no other pipe.
C24_ComparedWithFirstSeenSize ==
    ValidatedOnce =>
        LET differing == SelectSeq([i \in 1 .. Len(pipes) |-> i], DiffersFromFirst)
            sizing == WarningsSaying("Inconsistent line sizing")
        IN  [k \in 1 .. Len(sizing) |-> <<sizing[k][2], sizing[k][3]>>] =
                [k \in 1 .. Len(differing) |->
                    <<LabelKey(pipes[differing[k]].label), LabelSize(pipes[differing[k]].label)>>]

\* ------------------------------------------------------------------- C25
\* the ids of the components of the drawing
ComponentIds == {components[i].id : i \in 1 .. Len(components)}

\* C25: the validator never reports a loop as missing its primary or its
\* final control element, and every loop the analyzer holds has a component
\* of the drawing as primary element and one as final element.
C25_NoMissingElementReported ==
    /\ ErrorsSaying("Control loop missing primary element") = <<>>
    /\ ErrorsSaying("Control loop missing final control element") = <<>>
    /\ \A k \in 1 .. Len(control_loops) :
          /\ control_loops[k].primary_element \in ComponentIds
          /\ control_loops[k].final_element \in ComponentIds

\* a drawing was validated in which a controller has its transmitter among
\* its neighbours and no final element
C25_Witness ==
    /\ apc = "validated"
    /\ \E i \in 1 .. Len(components) :
          /\ IsController(components[i])
          /\ ~LoopComplete(components[i])
          /\ \E t \in SignalNeighbours(components[i].id) :
                /\ IsTransmitter(t)
                /\ t.tag_info[1].variable = components[i].tag_info[1].variable
                /\ t.tag_info[1].number = components[i].tag_info[1].number

\* ------------------------------------------------------------------- C28
\* C28: in every loop the analyzer holds, the primary element, the
\* controller and the final element are three different components.
C28_LoopElementsDistinct ==
    \A k \in 1 .. Len(control_loops) :
        /\ control_loops[k].primary_element # control_loops[k].controller
        /\ control_loops[k].controller # control_loops[k].final_element
        /\ control_loops[k].primary_element # control_loops[k].final_element

\* ------------------------------------------------------------------- C29
\* the component of the drawing with the id
ComponentWithId(id) == CHOOSE c \in {components[i] : i \in 1 .. Len(components)} : c.id = id

\* the role letter is among the modifiers of the component's parsed tag
Flagged(comp, letter) ==
    /\ comp.tag_info # <<>>
    /\ \E i \in 1 .. Len(comp.tag_info[1].modifiers) : comp.tag_info[1].modifiers[i] = letter

\* C29: a loop's controller has C among its modifiers and its transmitter
\* has not; a component with C among its modifiers is a final element only
\* if its component_type contains "valve"; and the alarm of an interlock has
\* none of C, T, V among its modifiers.
C29_OneRoleByPriority ==
    /\ \A k \in 1 .. Len(control_loops) :
          /\ Flagged(ComponentWithId(control_loops[k].controller), "C")
          /\ ~Flagged(ComponentWithId(control_loops[k].primary_element), "C")
          /\ Flagged(ComponentWithId(control_loops[k].final_element), "C") =>
                Holds(ComponentWithId(control_loops[k].final_element).component_type, valve)
    /\ \A k \in 1 .. Len(interlocks) :
          /\ ~Flagged(ComponentWithId(interlocks[k].alarm), "C")
          /\ ~Flagged(ComponentWithId(interlocks[k].alarm), "T")
          /\ ~Flagged(ComponentWithId(interlocks[k].alarm), "V")

\* the analyzer holds a loop whose final element is FCV-101, an instrument
\* with C among its modifiers and a component_type that contains "valve"
C29_Witness ==
    /\ apc = "analyzed"
    /\ Len(control_loops) = 1
    /\ ComponentWithId(control_loops[1].final_element).tag = FCV_101
    /\ Flagged(ComponentWithId(control_loops[1].final_element), "C")
    /\ ComponentWithId(control_loops[1].controller).tag = FIC_101

\* ------------------------------------------------------------------- C30
\* the tag is 2 to 4 uppercase letters, an optional hyphen, 3 or 4 digits and
\* an optional uppercase letter
HasTagFormat(tag) ==
    \E k \in 2 .. 4, y \in 0 .. 1, d \in 3 .. 4, z \in 0 .. 1 :
        /\ Len(tag) = k + y + d + z
        /\ \A i \in 1 .. k : tag[i] \in Upper
        /\ y = 1 => tag[k + 1] = "-"
        /\ \A i \in k + y + 1 .. k + y + d : tag[i] \in Digit
        /\ z = 1 => tag[Len(tag)] \in Upper

\* C30: the validator never reports "Invalid instrument tag format", and a
\* component is an instrument exactly when its tag has the tag format.
C30_NoInvalidFormatError ==
    /\ ErrorsSaying("Invalid instrument tag format") = <<>>
    /\ \A i \in 1 .. Len(components) :
          components[i].is_instrument <=> HasTagFormat(components[i].tag)

\* a drawing was validated that holds a component which is no instrument and
\* an instrument whose tag ends with a suffix letter
C30_Witness ==
    /\ apc = "validated"
    /\ \E i, j \in 1 .. Len(components) :
          /\ ~components[i].is_instrument
          /\ components[j].is_instrument
          /\ components[j].tag[Len(components[j].tag)] \in Upper

\* ------------------------------------------------------------------ C27
\* the call in progress is the routing of a pipe of the drawing: from a port
\* of the i-th component to a port of the j-th
RoutesBetween(i, j) ==
    \E from_port \in PortNames, to_port \in PortNames :
        /\ start = get_port_coords(components[i], from_port)
        /\ end = get_port_coords(components[j], to_port)

\* a pipe between two components of the drawing
SmartRouted ==
    \E i \in 1 .. Len(components), j \in 1 .. Len(components) : i # j /\ RoutesBetween(i, j)

\* a pipe of the drawing, one from a component to itself included
SmartRoutedAny ==
    \E i \in 1 .. Len(components), j \in 1 .. Len(components) : RoutesBetween(i, j)

FallbackReturned == via = "fallback" /\ IsFallbackShape(path)

\* an end cell in the obstacle set and another start cell give the fallback
ObstacleEndGivesFallback ==
    Returned /\ EndGrid \in obstacles /\ StartGrid # EndGrid => FallbackReturned

\* C27 as stated: an end cell in the obstacle set that differs from the start
\* cell gives the fallback path whatever else the grid contains; and every
\* smart-routed pipe between two unrotated in-bounds components receives the
\* fallback path, not a search-found one.
C27_SmartRoutedPipesGetFallback ==
    /\ ObstacleEndGivesFallback
    /\ (Returned /\ SmartRouted => FallbackReturned)

\* C27 amended: an end cell in the obstacle set that differs from the start
\* cell gives the fallback path; the end port of every smart-routed pipe lies
\* in an obstacle cell, and the pipe receives the fallback path exactly when
\* its two ports lie in different cells: two ports in one cell give the
\* one-point path the search finds.
C27_SmartRoutedPipesGetFallbackAcrossCells ==
    /\ ObstacleEndGivesFallback
    /\ (Returned /\ SmartRoutedAny =>
           /\ EndGrid \in obstacles
           /\ (StartGrid # EndGrid => FallbackReturned)
           /\ (StartGrid = EndGrid => via = "search" /\ Len(path) = 1))

\* a pipe between two components placed apart, pipe cells on the grid, the
\* fallback returned
C27_Witness ==
    /\ Returned
    /\ SmartRouted
    /\ StartGrid # EndGrid
    /\ EndGrid \in obstacles
    /\ pipes_grid # {}
    /\ FallbackReturned

====
